---- MODULE Spec2Model ----
(***************************************************************************)
(* The vfs-socket Worker (src/packages/vfs-socket/worker.js): the handle   *)
(* registries, the store* functions, the per-handle RPC endpoints, the     *)
(* listeners the worker attaches to local resources, and the channel's     *)
(* 'drain' and 'disconnect' handlers.                                      *)
(*                                                                         *)
(* Every handler is a pure operator on a record w that holds the worker's  *)
(* closure variables and the fields of the objects it touches; an action   *)
(* applies one handler to the current state.  w.fx collects, in order, the *)
(* calls the handler makes on `remote` (messages to the peer) and on local *)
(* resources, w.cbs the calls of the peer's callback.                      *)
(***************************************************************************)
EXTENDS Integers, Sequences, FiniteSets, TLC

\* The id ring of storeStream and storeWatcher: (cursor + 1) % 10000.
IdRing == 10000

\* Bounds of the model.
MaxPending == 1      \* routed vfs calls in flight at once
MaxProxies == 1      \* proxy streams made by makeStreamProxy in one session
MaxStores == 2       \* times the vfs hands the same object to the worker
MaxEarly == 1        \* in the id ring run: the long-lived stream is opened
                     \* while the stream cursor is at most this

NoId == 0 - 1        \* "undefined" where an id is expected
NoPid == ""          \* "undefined" where a pid or a name is expected

(***************************************************************************)
(* The resources the vfs can hand to the worker.  Each is an object with   *)
(* an identity; what it can do is fixed by its kind.                       *)
(***************************************************************************)
PlainStreams == {"s1", "s2"}          \* meta.stream
Procs == {"p1"}                       \* meta.process
Ptys == {"t1"}                        \* meta.pty: a process and a stream
WatcherObjs == {"w1"}                 \* meta.watcher
ApiObjs == {"a1"}                     \* meta.api

Stdin == [p1 |-> "p1.in"]
Stdout == [p1 |-> "p1.out"]
Stderr == [p1 |-> "p1.err"]
StdioObjs == {Stdin[p] : p \in Procs} \cup {Stdout[p] : p \in Procs}
               \cup {Stderr[p] : p \in Procs}

StreamObjs == PlainStreams \cup StdioObjs \cup Ptys
ProcObjs == Procs \cup Ptys
Objs == StreamObjs \cup Procs \cup WatcherObjs \cup ApiObjs

\* process.pid; the registries are JavaScript objects, so keys are strings.
Pid == [p1 |-> "501", t1 |-> "502"]
AllPids == <<"501", "502">>
\* api.name
ApiName == [a1 |-> "ping"]

\* s1: a file read stream.  s2: a memory stream (duplex, no destroy method).
\* stdin is writable only, stdout and stderr readable only; a pty is duplex.
ReadableObjs == {"s1", "s2", "t1"} \cup {Stdout[p] : p \in Procs}
                  \cup {Stderr[p] : p \in Procs}
WritableObjs == {"s2", "t1"} \cup {Stdin[p] : p \in Procs}
PausableObjs == ReadableObjs          \* objects with pause and resume
DestroyableObjs == StreamObjs \ {"s2"} \* objects with a destroy method

(***************************************************************************)
(* Registries: JavaScript objects used as maps.                            *)
(***************************************************************************)
EmptyMap == [k \in {} |-> ""]
Has(m, k) == k \in DOMAIN m
Get(m, k) == IF k \in DOMAIN m THEN m[k] ELSE ""
Put(m, k, v) == [x \in DOMAIN m \cup {k} |-> IF x = k THEN v ELSE m[x]]
Del(m, k) == [x \in DOMAIN m \ {k} |-> m[x]]

\* Object.keys of a registry with integer keys: ascending order.
RECURSIVE IntKeys(_)
IntKeys(S) ==
    IF S = {} THEN <<>>
    ELSE LET m == CHOOSE x \in S : \A y \in S : x <= y
         IN <<m>> \o IntKeys(S \ {m})

\* Object.keys(processes): the pids present.
PidKeys(m) == SelectSeq(AllPids, LAMBDA p : p \in DOMAIN m)

(***************************************************************************)
(* Tokens, listeners, effects.                                             *)
(***************************************************************************)
Tok(id, pid, stdio, name) == [id |-> id, pid |-> pid, stdio |-> stdio, name |-> name]
NoToken == Tok(NoId, NoPid, <<>>, NoPid)

\* One call made by a handler: m is the method, id / o say on what.
Fx(m, id, o) == [m |-> m, id |-> id, o |-> o]

\* The messages a handler sends to the peer, among its effects.
PeerMsgs == {"onData", "onEnd", "onClose", "onError", "onExit",
             "onProcessClose", "onPtyKill", "onChange", "onEvent"}

\* The listeners one store* call attaches to an object: k says which call
\* ("stream": error, data, end, close; "proc": exit, close; "kill"; "watch":
\* change), id / pid / only are the values its closures captured, rd says
\* whether the data and end listeners were attached (stream.readable).
Lsn(k, id, pid, rd, only) == [k |-> k, id |-> id, pid |-> pid, rd |-> rd, only |-> only]

Emitted(w, m, id, o) == [w EXCEPT !.fx = Append(@, Fx(m, id, o))]

(***************************************************************************)
(* State.  The worker's closure variables, the fields the worker reads or  *)
(* writes on the objects it was given, and what the outside world knows.   *)
(***************************************************************************)
VARIABLES
    streams,        \* id -> local stream object
    proxyStreams,   \* id -> proxy stream (an index into proxyObjs)
    watchers,       \* id -> watcher object
    processes,      \* pid -> process object
    apis,           \* name -> api object
    handlers,       \* event name -> forwarder attached to the vfs
    nextStreamID,
    nextWatcherID,
    token,          \* object -> object.token
    sid,            \* object -> object.id
    listeners,      \* object -> the listeners the worker attached, in order
    unreffed,       \* process -> process.unreffed
    proxyObjs,      \* the proxy streams made so far: token fields, events emitted
    vfsListeners,   \* event name -> the forwarders attached to the vfs, in order
    src,            \* object -> where its source is in its own life
    paused,         \* stream -> "no", or who paused its source: "peer" by
                    \* pause(id), "congested" by the data listener
    calls,          \* object -> the terminal calls it has received
    sent,           \* object -> the kinds of message sent to the peer for it
    pending,        \* routed vfs calls whose callback has not fired yet
    disconnected,   \* the 'disconnect' handler has run
    http,           \* the request the REST gateway is serving, its response
    last            \* the step just taken: the handler, the object it was
                    \* about, whether that object already had a token

wvars == <<streams, proxyStreams, watchers, processes, apis, handlers,
           nextStreamID, nextWatcherID, token, sid, listeners, unreffed,
           proxyObjs, vfsListeners>>
evars == <<src, paused, calls, sent, pending, disconnected>>
vars == <<wvars, evars, http, last>>

\* The current state as the record the handlers work on.
Cur ==
    [streams |-> streams, proxyStreams |-> proxyStreams, watchers |-> watchers,
     processes |-> processes, apis |-> apis, handlers |-> handlers,
     nextStreamID |-> nextStreamID, nextWatcherID |-> nextWatcherID,
     token |-> token, sid |-> sid, listeners |-> listeners,
     unreffed |-> unreffed, proxyObjs |-> proxyObjs,
     vfsListeners |-> vfsListeners, src |-> src, paused |-> paused,
     calls |-> calls, sent |-> sent, pending |-> pending,
     disconnected |-> disconnected,
     fx |-> <<>>, ret |-> NoToken, proj |-> <<>>, cbs |-> <<>>, thrown |-> FALSE,
     out |-> "undefined"]

(***************************************************************************)
(* storeStream, storeProcess, storePty, storeWatcher, storeApi.            *)
(* Each returns the state after the call, with the token in w.ret.         *)
(***************************************************************************)
\* while (registry.hasOwnProperty(n)) n = (n + 1) % 10000
RECURSIVE Probe(_, _)
Probe(reg, n) == IF Has(reg, n) THEN Probe(reg, (n + 1) % IdRing) ELSE n

\* storeStream without its "if (stream.token) return stream.token".
storeStream_NoGuard(w, s) ==
    LET id == Probe(w.streams, (w.nextStreamID + 1) % IdRing)
        tok == Tok(id, NoPid, <<>>, NoPid)
    IN [w EXCEPT !.nextStreamID = id,
                 !.streams = Put(@, id, s),
                 !.sid[s] = id,
                 !.listeners[s] = Append(@, Lsn("stream", id, NoPid,
                                                 s \in ReadableObjs, FALSE)),
                 !.token[s] = tok,
                 !.ret = tok]

storeStream(w, s) ==
    IF w.token[s] # NoToken
    THEN [w EXCEPT !.ret = w.token[s]]
    ELSE LET id == Probe(w.streams, (w.nextStreamID + 1) % IdRing)
             tok == Tok(id, NoPid, <<>>, NoPid)
         IN [w EXCEPT !.nextStreamID = id,
                      !.streams = Put(@, id, s),
                      !.sid[s] = id,
                      !.listeners[s] = Append(@, Lsn("stream", id, NoPid,
                                                      s \in ReadableObjs, FALSE)),
                      !.token[s] = tok,
                      !.ret = tok]

storeProcess(w, p, onlyPid) ==
    LET pid == Pid[p] IN
    IF Has(w.processes, "token")
    THEN [w EXCEPT !.ret = IF onlyPid THEN Tok(NoId, pid, <<>>, NoPid)
                           ELSE w.token[p]]
    ELSE LET w1 == [w EXCEPT !.processes = Put(@, pid, p),
                             !.listeners[p] = Append(@, Lsn("proc", NoId, pid,
                                                             FALSE, onlyPid)),
                             !.token[p] = Tok(NoId, pid, <<>>, NoPid)]
         IN IF onlyPid
            THEN [w1 EXCEPT !.ret = Tok(NoId, pid, <<>>, NoPid)]
            ELSE LET w2 == storeStream(w1, Stdin[p])
                     w3 == storeStream(w2, Stdout[p])
                     w4 == storeStream(w3, Stderr[p])
                     tok == Tok(NoId, pid,
                                <<w2.ret.id, w3.ret.id, w4.ret.id>>, NoPid)
                 IN [w4 EXCEPT !.token[p] = tok, !.ret = tok]

storePty_NoGuard(w, t) ==
    LET w1 == storeProcess(w, t, TRUE)
        pid == w1.ret.pid
        w2 == storeStream([w1 EXCEPT !.token[t] = NoToken], t)
        tok == [w2.ret EXCEPT !.pid = pid]
    IN [w2 EXCEPT !.token[t] = tok,
                  !.listeners[t] = Append(@, Lsn("kill", NoId, pid, FALSE, FALSE)),
                  !.ret = tok]

storePty(w, t) ==
    IF Get(w.processes, Pid[t]) = t
    THEN [w EXCEPT !.ret = w.token[t]]
    ELSE LET w1 == storeProcess(w, t, TRUE)
             pid == w1.ret.pid
             w2 == storeStream([w1 EXCEPT !.token[t] = NoToken], t)
             tok == [w2.ret EXCEPT !.pid = pid]
         IN [w2 EXCEPT !.token[t] = tok,
                       !.listeners[t] = Append(@, Lsn("kill", NoId, pid,
                                                       FALSE, FALSE)),
                       !.ret = tok]

storeWatcher(w, x) ==
    LET id == Probe(w.watchers, (w.nextWatcherID + 1) % IdRing)
    IN [w EXCEPT !.nextWatcherID = id,
                 !.watchers = Put(@, id, x),
                 !.sid[x] = id,
                 !.listeners[x] = Append(@, Lsn("watch", id, NoPid,
                                                 FALSE, FALSE)),
                 !.ret = Tok(id, NoPid, <<>>, NoPid)]

storeApi(w, a) ==
    [w EXCEPT !.apis = Put(@, ApiName[a], a),
              !.ret = Tok(NoId, NoPid, <<>>, ApiName[a])]

(***************************************************************************)
(* The listeners of storeStream, storeProcess, storePty and storeWatcher,  *)
(* run as EventEmitter.emit runs them: all listeners of the event on the   *)
(* object, in the order they were attached.  accept is what remote.onData  *)
(* returns.                                                                *)
(***************************************************************************)
Note(w, o, m) == [w EXCEPT !.sent[o] = @ \cup {m}]

RunListener(w, o, l, ev, accept) ==
    CASE l.k = "stream" /\ ev = "error" ->
            Note(Emitted(w, "onError", l.id, o), o, "error")
      [] l.k = "stream" /\ ev = "data" /\ l.rd ->
            LET w1 == Note(Emitted(w, "onData", l.id, o), o, "data")
            IN IF ~accept /\ o \in PausableObjs
               THEN Emitted([w1 EXCEPT !.paused[o] = "congested"], "pause", l.id, o)
               ELSE w1
      [] l.k = "stream" /\ ev = "end" /\ l.rd ->
            Note(Emitted([w EXCEPT !.streams = Del(@, l.id)], "onEnd", l.id, o),
                 o, "end")
      [] l.k = "stream" /\ ev = "close" ->
            Note(Emitted([w EXCEPT !.streams = Del(@, l.id)], "onClose", l.id, o),
                 o, "close")
      [] l.k = "proc" /\ ev = "exit" ->
            Note(Emitted([w EXCEPT !.processes = Del(@, l.pid)], "onExit", NoId, l.pid),
                 o, "exit")
      [] l.k = "proc" /\ ev = "close" ->
            LET w1 == [w EXCEPT !.processes = Del(@, l.pid)]
                w2 == IF l.only THEN w1
                      ELSE [w1 EXCEPT !.streams =
                               Del(Del(Del(@, w.sid[Stdout[o]]),
                                       w.sid[Stderr[o]]), w.sid[Stdin[o]])]
            IN Note(Emitted(w2, "onProcessClose", NoId, l.pid), o, "processClose")
      [] l.k = "kill" /\ ev = "kill" ->
            Emitted(w, "onPtyKill", NoId, l.pid)
      [] l.k = "watch" /\ ev = "change" ->
            Emitted(w, "onChange", l.id, o)
      [] OTHER -> w

RECURSIVE RunListeners(_, _, _, _, _)
RunListeners(w, o, ls, ev, accept) ==
    IF ls = <<>> THEN w
    ELSE RunListeners(RunListener(w, o, Head(ls), ev, accept), o, Tail(ls),
                      ev, accept)

\* object.emit(ev, ...)
Emit(w, o, ev, accept) == RunListeners(w, o, w.listeners[o], ev, accept)

(***************************************************************************)
(* Proxy streams: makeStreamProxy and the endpoints the peer pushes to.    *)
(* A proxy object keeps the id and flags of its token and the events it    *)
(* has emitted so far.                                                     *)
(***************************************************************************)
\* The registries are object literals: registry[key] is also defined for a
\* key every object inherits, such as "constructor", where it is a function
\* of the runtime and no resource.  InheritedName is that key among pids
\* and names; InheritedId is that key among the ids, which are numbers here.
InheritedName == "constructor"
InheritedId == IdRing + 1
\* What a handler does after "if (!x) return" when key is not in its
\* registry: it has returned, unless the key is inherited and the handler
\* goes on to call method on what it found, which is not a function.
NotAFunction(w, inherited, method) ==
    IF inherited
    THEN [Emitted(w, "throw", NoId, method \o " is not a function")
            EXCEPT !.thrown = TRUE]
    ELSE w

makeStreamProxy(w, tk) ==
    LET n == Len(w.proxyObjs) + 1
        obj == [id |-> tk.id, readable |-> tk.readable, writable |-> tk.writable,
                events |-> {}]
    IN [w EXCEPT !.proxyObjs = Append(@, obj),
                 !.proxyStreams = Put(@, tk.id, n)]

\* stream.write(chunk) on proxy number n, as makeStreamProxy defines it for a
\* writable token: return remote.write(id, chunk).  accepted is what
\* remote.write returns; w.out is what the proxy's write returns.
ProxyWrite(w, n, accepted) ==
    IF w.proxyObjs[n].writable
    THEN [Emitted(w, "remote.write", w.proxyObjs[n].id, "proxy")
            EXCEPT !.out = IF accepted THEN "true" ELSE "false"]
    ELSE [Emitted(w, "throw", NoId, "stream.write is not a function")
            EXCEPT !.thrown = TRUE]

\* stream.emit(ev) on proxy number n
ProxyEmit(w, n, ev) ==
    Emitted([w EXCEPT !.proxyObjs[n].events = @ \cup {ev}], "emit:" \o ev,
            w.proxyObjs[n].id, "proxy")

onData(w, id) ==
    IF ~Has(w.proxyStreams, id) THEN NotAFunction(w, id = InheritedId, "stream.emit")
    ELSE ProxyEmit(w, w.proxyStreams[id], "data")

onEnd(w, id) ==
    IF ~Has(w.proxyStreams, id) THEN NotAFunction(w, id = InheritedId, "stream.emit")
    ELSE ProxyEmit([w EXCEPT !.proxyStreams = Del(@, id)], w.proxyStreams[id], "end")

onClose(w, id) ==
    IF ~Has(w.proxyStreams, id) THEN NotAFunction(w, id = InheritedId, "stream.emit")
    ELSE ProxyEmit([w EXCEPT !.proxyStreams = Del(@, id)], w.proxyStreams[id], "close")

(***************************************************************************)
(* The per-handle endpoints the peer calls.                                *)
(***************************************************************************)
Throw(w, what) == [Emitted(w, "throw", NoId, what) EXCEPT !.thrown = TRUE]
Called(w, o, m) == [w EXCEPT !.calls[o] = @ \cup {m}]

\* accepted is what stream.write(chunk) returns; write returns nothing.
write(w, id, accepted) ==
    IF ~Has(w.streams, id) THEN NotAFunction(w, id = InheritedId, "stream.write")
    ELSE LET s == w.streams[id]
         IN IF s \in WritableObjs
            THEN Emitted(w, IF accepted THEN "write" ELSE "write:refused", id, s)
            ELSE Throw(w, "stream.write is not a function")

destroy(w, id) ==
    IF ~Has(w.streams, id) THEN w
    ELSE LET s == w.streams[id]
             w1 == [w EXCEPT !.streams = Del(@, id)]
         IN IF s \in DestroyableObjs
            THEN Emitted(Called(w1, s, "destroy"), "destroy", id, s)
            ELSE w1

end(w, id) ==
    IF ~Has(w.streams, id) THEN NotAFunction(w, id = InheritedId, "stream.end")
    ELSE LET s == w.streams[id]
             w1 == [w EXCEPT !.streams = Del(@, id)]
         IN IF s \in WritableObjs
            THEN Emitted(Called(w1, s, "end"), "end", id, s)
            ELSE Throw(w1, "stream.end is not a function")

resume(w, id) ==
    IF ~Has(w.streams, id) THEN w
    ELSE LET s == w.streams[id]
         IN IF s \in PausableObjs
            THEN Emitted([w EXCEPT !.paused[s] = "no"], "resume", id, s)
            ELSE w

pause(w, id) ==
    IF ~Has(w.streams, id) THEN w
    ELSE LET s == w.streams[id]
         IN IF s \in PausableObjs
            THEN Emitted([w EXCEPT !.paused[s] = "peer"], "pause", id, s)
            ELSE w

\* process.kill as storeProcess replaced it: vfs.killtree(pid, {code}, cb)
ProcessKill(w, p) == Emitted(Called(w, p, "kill"), "killtree", NoId, Pid[p])

kill(w, pid) ==
    IF ~Has(w.processes, pid) THEN NotAFunction(w, pid = InheritedName, "process.kill")
    ELSE ProcessKill(w, w.processes[pid])

unref(w, pid) ==
    IF ~Has(w.processes, pid) THEN NotAFunction(w, pid = InheritedName, "process.unref")
    ELSE LET p == w.processes[pid]
         IN Emitted([w EXCEPT !.unreffed[p] = TRUE], "unref", NoId, pid)

resize(w, pid) ==
    IF ~Has(w.processes, pid) THEN w
    ELSE Emitted(w, "resize", NoId, pid)

closeWatcher(w, id) ==
    IF ~Has(w.watchers, id) THEN NotAFunction(w, id = InheritedId, "watcher.close")
    ELSE LET x == w.watchers[id]
         IN Emitted(Called([w EXCEPT !.watchers = Del(@, id)], x, "close"),
                    "watcher.close", id, x)

\* call(name, fnName, args): the functions of an api, those of the runtime's
\* Object, and whether the last argument is a function; a callback passed
\* on is one more call that will answer through processCallback.
ApiFns == {"ping"}
ObjectFns == {"keys"}
call(w, name, fnName, hasCb) ==
    IF ~Has(w.apis, name)
    THEN IF name = InheritedName /\ fnName \in ObjectFns
         THEN Emitted(w, "Object." \o fnName, NoId, name)
         ELSE NotAFunction(w, name = InheritedName, "api[fnName].apply")
    ELSE IF fnName \notin ApiFns
    THEN Throw(w, "api[fnName] is undefined")
    ELSE Emitted([w EXCEPT !.pending = IF hasCb THEN @ + 1 ELSE @],
                 "api." \o fnName, NoId, name)

(***************************************************************************)
(* The channel's 'drain' and 'disconnect' handlers.                        *)
(***************************************************************************)
RECURSIVE DrainStreams(_, _)
DrainStreams(w, ids) ==
    IF ids = <<>> THEN w
    ELSE LET s == w.streams[Head(ids)]
             w1 == IF s \in ReadableObjs /\ s \in PausableObjs
                   THEN Emitted([w EXCEPT !.paused[s] = "no"], "resume", Head(ids), s)
                   ELSE w
         IN DrainStreams(w1, Tail(ids))

\* The drain handler testing stream.readable where the code tests
\* stream.writable.
RECURSIVE DrainProxies_Readable(_, _)
DrainProxies_Readable(w, ids) ==
    IF ids = <<>> THEN w
    ELSE LET n == w.proxyStreams[Head(ids)]
             w1 == IF w.proxyObjs[n].readable THEN ProxyEmit(w, n, "drain") ELSE w
         IN DrainProxies_Readable(w1, Tail(ids))

RECURSIVE DrainProxies(_, _)
DrainProxies(w, ids) ==
    IF ids = <<>> THEN w
    ELSE LET n == w.proxyStreams[Head(ids)]
             w1 == IF w.proxyObjs[n].writable THEN ProxyEmit(w, n, "drain") ELSE w
         IN DrainProxies(w1, Tail(ids))

drain(w) ==
    DrainProxies(DrainStreams(w, IntKeys(DOMAIN w.streams)),
                 IntKeys(DOMAIN w.proxyStreams))

RECURSIVE KillProcesses_All(_, _)
KillProcesses_All(w, pids) ==
    IF pids = <<>> THEN w
    ELSE KillProcesses_All([ProcessKill(w, w.processes[Head(pids)])
                               EXCEPT !.processes = Del(@, Head(pids))],
                           Tail(pids))

RECURSIVE KillProcesses(_, _)
KillProcesses(w, pids) ==
    IF pids = <<>> THEN w
    ELSE LET p == w.processes[Head(pids)]
             w1 == IF ~w.unreffed[p] THEN ProcessKill(w, p) ELSE w
         IN KillProcesses([w1 EXCEPT !.processes = Del(@, Head(pids))], Tail(pids))

\* streams[id].emit("close", err) for the ids Object.keys(streams) listed
\* before the loop; an id an earlier listener has deleted gives undefined.
RECURSIVE CloseStreams(_, _)
CloseStreams(w, ids) ==
    IF ids = <<>> \/ w.thrown THEN w
    ELSE IF ~Has(w.streams, Head(ids))
         THEN Throw(w, "stream is undefined")
         ELSE LET s == w.streams[Head(ids)]
              IN CloseStreams(Emit(Called(Emitted(w, "emit:close", Head(ids), s),
                                          s, "close"),
                                   s, "close", TRUE),
                              Tail(ids))

RECURSIVE CloseProxies(_, _)
CloseProxies(w, ids) ==
    IF ids = <<>> THEN w ELSE CloseProxies(onClose(w, Head(ids)), Tail(ids))

RECURSIVE CloseWatchers(_, _)
CloseWatchers(w, ids) ==
    IF ids = <<>> THEN w
    ELSE LET x == w.watchers[Head(ids)]
         IN CloseWatchers(Emitted(Called([w EXCEPT !.watchers = Del(@, Head(ids))],
                                         x, "close"),
                                  "watcher.close", Head(ids), x),
                          Tail(ids))

disconnect(w) ==
    LET w1 == KillProcesses(w, PidKeys(w.processes))
        w2 == CloseStreams(w1, IntKeys(DOMAIN w1.streams))
        w3 == IF w2.thrown THEN w2
              ELSE CloseProxies(w2, IntKeys(DOMAIN w2.proxyStreams))
        w4 == IF w3.thrown THEN w3
              ELSE CloseWatchers(w3, IntKeys(DOMAIN w3.watchers))
    IN [w4 EXCEPT !.disconnected = TRUE]

(***************************************************************************)
(* processCallback and route.  A meta is the sequence of its keys, each    *)
(* with its value: an object for the resource keys, a scalar otherwise,    *)
(* Undefined for undefined or null.  err is the error's code, "" for none. *)
(***************************************************************************)
Undefined == "undefined"
NoMeta == [present |-> FALSE, keys |-> <<>>]
Meta(keys) == [present |-> TRUE, keys |-> keys]
Entry(key, tok, val) == [key |-> key, tok |-> tok, val |-> val]
\* A meta with one key.
One(key, val) == Meta(<<[key |-> key, val |-> val]>>)
Stored(w, key) == [w EXCEPT !.proj = Append(@, Entry(key, w.ret, ""))]

\* callback(nerr) / callback(nerr, token)
Callback(w, err, has) ==
    Emitted([w EXCEPT !.cbs = Append(@, [err |-> err, has |-> has, proj |-> w.proj])],
            "callback", NoId, err)

\* processCallback without its "if (meta[key] == undefined) continue".
ProjectKey_KeepsUndefined(w, e) ==
    IF e.val = Undefined /\ e.key \in {"stream", "process", "pty", "watcher", "api"}
    THEN w
    ELSE CASE e.key = "stream" -> Stored(storeStream(w, e.val), e.key)
           [] e.key = "process" -> Stored(storeProcess(w, e.val, FALSE), e.key)
           [] e.key = "pty" -> Stored(storePty(w, e.val), e.key)
           [] e.key = "watcher" -> Stored(storeWatcher(w, e.val), e.key)
           [] e.key = "api" -> Stored(storeApi(w, e.val), e.key)
           [] OTHER -> [w EXCEPT !.proj = Append(@, Entry(e.key, NoToken, e.val))]

ProjectKey(w, e) ==
    IF e.val = Undefined THEN w
    ELSE CASE e.key = "stream" -> Stored(storeStream(w, e.val), e.key)
           [] e.key = "process" -> Stored(storeProcess(w, e.val, FALSE), e.key)
           [] e.key = "pty" -> Stored(storePty(w, e.val), e.key)
           [] e.key = "watcher" -> Stored(storeWatcher(w, e.val), e.key)
           [] e.key = "api" -> Stored(storeApi(w, e.val), e.key)
           [] OTHER -> [w EXCEPT !.proj = Append(@, Entry(e.key, NoToken, e.val))]

RECURSIVE ProjectKeys(_, _)
ProjectKeys(w, keys) ==
    IF keys = <<>> THEN w ELSE ProjectKeys(ProjectKey(w, Head(keys)), Tail(keys))

processCallback(w, err, meta) ==
    IF err # "" /\ ~meta.present
    THEN Callback(w, err, FALSE)
    ELSE Callback(ProjectKeys(w, meta.keys), err, TRUE)

NoStream == [id |-> NoId, readable |-> FALSE, writable |-> FALSE]

\* route without its test of path against null and undefined.
route_NoPathCheck(w, name, path, optStream, hasCb) ==
    IF ~hasCb THEN Emitted(w, "console.error", NoId, name)
    ELSE LET w1 == IF optStream # NoStream THEN makeStreamProxy(w, optStream) ELSE w
         IN Emitted([w1 EXCEPT !.pending = @ + 1], "vfs", NoId, name)

\* route(name)(path, options, callback); path is "null", "undefined" or a
\* path, optStream is options.stream (NoStream when absent), hasCb says
\* whether callback is a function.
route(w, name, path, optStream, hasCb) ==
    IF ~hasCb THEN Emitted(w, "console.error", NoId, name)
    ELSE LET w1 == IF optStream # NoStream THEN makeStreamProxy(w, optStream) ELSE w
         IN IF path \in {"null", "undefined"}
            THEN Callback(Emitted(w1, "console.error", NoId, name),
                          "EINVALIDPATH", FALSE)
            ELSE Emitted([w1 EXCEPT !.pending = @ + 1], "vfs", NoId, name)

(***************************************************************************)
(* Initial state: the Worker just constructed.                             *)
(***************************************************************************)
WorkerInit ==
    /\ streams = EmptyMap
    /\ proxyStreams = EmptyMap
    /\ watchers = EmptyMap
    /\ processes = EmptyMap
    /\ apis = EmptyMap
    /\ handlers = EmptyMap
    /\ nextStreamID = 1
    /\ nextWatcherID = 1
    /\ token = [o \in Objs |-> NoToken]
    /\ sid = [o \in Objs |-> NoId]
    /\ listeners = [o \in Objs |-> <<>>]
    /\ unreffed = [o \in ProcObjs |-> FALSE]
    /\ proxyObjs = <<>>
    /\ vfsListeners = EmptyMap
    /\ src = [o \in Objs |-> "open"]
    /\ paused = [o \in StreamObjs |-> "no"]
    /\ calls = [o \in Objs |-> {}]
    /\ sent = [o \in Objs |-> {}]
    /\ pending = 0
    /\ disconnected = FALSE
    /\ last = [op |-> "init", o |-> "", again |-> FALSE]

\* No request has reached the gateway.
NoRequest == [phase |-> "none"]

Init == WorkerInit /\ http = NoRequest

\* The state after a handler has run: r is the record it returned, again
\* says whether the object the step was about had a token before.
ApplyAs(op, o, r, again) ==
    /\ streams' = r.streams
    /\ proxyStreams' = r.proxyStreams
    /\ watchers' = r.watchers
    /\ processes' = r.processes
    /\ apis' = r.apis
    /\ handlers' = r.handlers
    /\ nextStreamID' = r.nextStreamID
    /\ nextWatcherID' = r.nextWatcherID
    /\ token' = r.token
    /\ sid' = r.sid
    /\ listeners' = r.listeners
    /\ unreffed' = r.unreffed
    /\ proxyObjs' = r.proxyObjs
    /\ vfsListeners' = r.vfsListeners
    /\ src' = r.src
    /\ paused' = r.paused
    /\ calls' = r.calls
    /\ sent' = r.sent
    /\ pending' = r.pending
    /\ disconnected' = r.disconnected
    /\ http' = http
    /\ last' = [op |-> op, o |-> o, again |-> again]

Apply(op, o, r) == ApplyAs(op, o, r, o \in Objs /\ token[o] # NoToken)

(***************************************************************************)
(* Calls arriving from the peer.                                           *)
(***************************************************************************)
\* The peer calls a routed vfs operation.
Route(name, path, optStream, hasCb) ==
    /\ pending < MaxPending
    /\ optStream # NoStream => Len(proxyObjs) < MaxProxies
    /\ Apply("route", "", route(Cur, name, path, optStream, hasCb))

RpcWrite(id) ==
    \E accepted \in BOOLEAN : Apply("write", "", write(Cur, id, accepted))
RpcEnd(id) == Apply("end", "", end(Cur, id))
RpcDestroy(id) == Apply("destroy", "", destroy(Cur, id))
RpcResume(id) == Apply("resume", "", resume(Cur, id))
RpcPause(id) == Apply("pause", "", pause(Cur, id))
RpcKill(pid) == Apply("kill", "", kill(Cur, pid))
RpcUnref(pid) == Apply("unref", "", unref(Cur, pid))
RpcResize(pid) == Apply("resize", "", resize(Cur, pid))
RpcCloseWatcher(id) == Apply("close", "", closeWatcher(Cur, id))
PeerOnData(id) == Apply("onData", "", onData(Cur, id))
PeerOnEnd(id) == Apply("onEnd", "", onEnd(Cur, id))
PeerOnClose(id) == Apply("onClose", "", onClose(Cur, id))

(***************************************************************************)
(* The channel.                                                            *)
(***************************************************************************)
Drain == Apply("drain", "", drain(Cur))

Disconnect ==
    /\ ~disconnected
    /\ Apply("disconnect", "", disconnect(Cur))

(***************************************************************************)
(* The vfs and the resources it handed out.                                *)
(***************************************************************************)
\* How many times a store* function has attached listeners to object o.
Stores(o) ==
    Len(SelectSeq(listeners[o],
                  LAMBDA l : l.k = IF o \in ProcObjs THEN "proc"
                                   ELSE IF o \in WatcherObjs THEN "watch"
                                   ELSE "stream"))

\* The vfs calls back a routed operation with (err, meta).
VfsCallback(err, meta) ==
    /\ pending > 0
    /\ \A i \in 1..Len(meta.keys) :
          meta.keys[i].val \in Objs => Stores(meta.keys[i].val) < MaxStores
    /\ Apply("callback",
             IF meta.keys # <<>> THEN meta.keys[1].val ELSE "",
             processCallback([Cur EXCEPT !.pending = @ - 1], err, meta))

\* The vfs calls back with a stream object it has just made.  The model
\* has finitely many objects: one whose source has closed and that has left
\* the registry stands for the new object, with the fields of a new object.
Retired(o) == src[o] = "closed" /\ ~(\E id \in DOMAIN streams : streams[id] = o)

NewObject(w, o) ==
    [w EXCEPT !.token[o] = NoToken, !.sid[o] = NoId, !.listeners[o] = <<>>,
              !.src[o] = "open", !.paused[o] = "no", !.calls[o] = {},
              !.sent[o] = {}]

VfsCallbackNew(s) ==
    /\ pending > 0
    /\ listeners[s] = <<>> \/ Retired(s)
    /\ ApplyAs("callback", s,
               processCallback(NewObject([Cur EXCEPT !.pending = @ - 1], s),
                               "", One("stream", s)),
               FALSE)

\* The vfs operation that was given options.stream writes a chunk to it;
\* accepted is what remote.write returns (false: the channel is congested).
VfsWritesProxy(n, accepted) ==
    /\ n \in 1..Len(proxyObjs)
    /\ Apply("proxy.write", "", ProxyWrite(Cur, n, accepted))

\* What a source may emit next, given where it is in its life.
MayEmit(o, ev) ==
    /\ listeners[o] # <<>>
    /\ CASE ev = "data" -> /\ o \in ReadableObjs
                           /\ src[o] = "open"
                           /\ paused[o] = "no"
                           /\ "destroy" \notin calls[o]
         [] ev = "error" -> /\ o \in StreamObjs
                            /\ src[o] # "closed"
         [] ev = "end" -> /\ o \in ReadableObjs \ Ptys
                          /\ src[o] = "open"
                          /\ "destroy" \notin calls[o]
         [] ev = "exit" -> o \in ProcObjs /\ src[o] = "open"
         [] ev = "kill" -> o \in Ptys /\ src[o] = "open"
         [] ev = "close" -> IF o \in Ptys THEN src[o] = "exited"
                            ELSE IF o \in Procs
                            THEN /\ src[o] = "exited"
                                 /\ \A s \in {Stdin[o], Stdout[o], Stderr[o]} :
                                       src[s] = "closed"
                            ELSE o \in StreamObjs /\ src[o] # "closed"
         [] ev = "change" -> /\ o \in WatcherObjs
                             /\ "close" \notin calls[o]
         [] OTHER -> FALSE

AfterEmit(w, o, ev) ==
    CASE ev = "end" -> [w EXCEPT !.src[o] = "ended"]
      [] ev = "exit" -> [w EXCEPT !.src[o] = "exited"]
      [] ev = "close" -> [w EXCEPT !.src[o] = "closed"]
      [] OTHER -> w

\* A resource emits an event of its own; accept is what the peer's onData
\* returns (false: the channel is congested).
SourceEmit(o, ev, accept) ==
    /\ MayEmit(o, ev)
    /\ ev # "data" => accept
    /\ Apply(ev, o,
             Emit(AfterEmit(Cur, o, ev), o, ev, accept))

(***************************************************************************)
(* The specification: every handler, on every resource of the universe.    *)
(***************************************************************************)
RoutedOps == {"readfile", "spawn"}
Paths == {"null", "/x"}
PeerStreamIds == {7, 8}
PeerTokens == {[id |-> i, readable |-> TRUE, writable |-> FALSE] : i \in PeerStreamIds}
                \cup {[id |-> i, readable |-> FALSE, writable |-> TRUE] : i \in PeerStreamIds}

Metas(S, P, T, X, A) ==
    {One("stream", s) : s \in S} \cup {One("process", p) : p \in P}
      \cup {One("pty", x) : x \in T} \cup {One("watcher", x) : x \in X}
      \cup {One("api", a) : a \in A} \cup {One("mime", "text/plain")}

\* The ids and pids a peer may name: those minted for the objects in T, and
\* one that never was.
UnknownId == 0
UnknownPid == "999"
KnownIds(T) == ({sid[o] : o \in T} \cup {UnknownId}) \ {NoId}
KnownPids(T) == {Pid[p] : p \in T \cap ProcObjs} \cup {UnknownPid}

\* A universe: the metas the vfs may call back with, the objects whose
\* sources emit events and the events they emit, the objects whose ids the
\* peer names in its calls, the tokens the peer passes as options.stream.
AllEvents == {"data", "error", "end", "exit", "kill", "close", "change"}
Universe(metas, emitters, events, targets, tokens) ==
    [metas |-> metas, emitters |-> emitters, events |-> events,
     targets |-> targets, tokens |-> tokens]

RouteStep(U) ==
    \E name \in RoutedOps, path \in Paths, tk \in U.tokens \cup {NoStream},
       hasCb \in BOOLEAN : Route(name, path, tk, hasCb)

RpcStep(U) ==
    \/ \E id \in KnownIds(U.targets) :
          \/ RpcWrite(id)
          \/ RpcEnd(id)
          \/ RpcDestroy(id)
          \/ RpcResume(id)
          \/ RpcPause(id)
          \/ RpcCloseWatcher(id)
    \/ \E pid \in KnownPids(U.targets) :
          \/ RpcKill(pid)
          \/ RpcUnref(pid)
          \/ RpcResize(pid)
    \/ \E id \in PeerStreamIds :
          \/ PeerOnData(id)
          \/ PeerOnEnd(id)
          \/ PeerOnClose(id)

CallbackStep(U) ==
    \/ \E m \in U.metas : VfsCallback("", m)
    \/ VfsCallback("ENOENT", NoMeta)

EmitStep(U) ==
    \E o \in U.emitters, ev \in U.events, accept \in BOOLEAN :
       SourceEmit(o, ev, accept)

NextOver(U) ==
    \/ RouteStep(U)
    \/ RpcStep(U)
    \/ CallbackStep(U)
    \/ EmitStep(U)
    \/ Drain
    \/ Disconnect

\* Plain streams only.
UStreams ==
    Universe(Metas({"s2"}, {}, {}, {}, {}), {"s2"}, AllEvents, {"s2"}, {})
Next == NextOver(UStreams)
Spec == Init /\ [][Next]_vars

\* One child process, its exit and the closing of its pipes.
UProcs ==
    Universe(Metas({}, {"p1"}, {}, {}, {}), {"p1"} \cup StdioObjs,
             {"exit", "close"}, {"p1"}, {})
NextProc == NextOver(UProcs)
SpecProc == Init /\ [][NextProc]_vars

\* Streams of the peer, passed as options.stream, next to one local stream.
UProxies ==
    Universe(Metas({"s2"}, {}, {}, {}, {}), {"s2"}, {"data", "close"}, {},
             PeerTokens)
NextProxy == NextOver(UProxies)
SpecProxy == Init /\ [][NextProxy]_vars

\* Streams of the peer that the vfs writes to, next to one local stream.
WriteTokens == {tk \in PeerTokens : tk.writable <=> tk.id = 7}
NextWrite ==
    \/ \E path \in Paths, tk \in WriteTokens : Route("readfile", path, tk, TRUE)
    \/ VfsCallback("", One("stream", "s2"))
    \/ VfsCallback("ENOENT", NoMeta)
    \/ \E n \in 1..MaxProxies, accepted \in BOOLEAN : VfsWritesProxy(n, accepted)
    \/ \E id \in PeerStreamIds : PeerOnEnd(id) \/ PeerOnClose(id)
    \/ \E id \in KnownIds({"s2"}) : RpcWrite(id)
    \/ Drain
    \/ Disconnect
SpecWrite == Init /\ [][NextWrite]_vars

\* Callbacks with metas of several keys: resources, plain values, undefined
\* values, with and without an error.
Key(key, val) == [key |-> key, val |-> val]
CallbackMetas ==
    {Meta(<<Key("stream", "s2"), Key("mime", "text/plain"), Key("etag", Undefined)>>),
     Meta(<<Key("size", "3"), Key("watcher", "w1"), Key("stream", Undefined)>>),
     Meta(<<Key("api", "a1"), Key("pty", "t1")>>),
     Meta(<<Key("process", "p1")>>),
     Meta(<<>>)}
NextCallback ==
    \/ Route("readfile", "/x", NoStream, TRUE)
    \/ \E err \in {"", "EIO"}, meta \in CallbackMetas : VfsCallback(err, meta)
    \/ VfsCallback("ENOENT", NoMeta)
    \/ SourceEmit("s2", "close", TRUE)
SpecCallback == Init /\ [][NextCallback]_vars

\* One resource of each registry the teardown walks, and an api.
UTeardown ==
    Universe(Metas({"s2"}, {}, {}, {"w1"}, {"a1"}), {"s2", "w1"},
             {"close", "change"}, {"w1"},
             {[id |-> 7, readable |-> TRUE, writable |-> FALSE]})
NextTeardown == NextOver(UTeardown)
SpecTeardown == Init /\ [][NextTeardown]_vars

\* A long session: one stream that stays open while the vfs keeps opening
\* and closing others, until the stream cursor has gone round the id ring.
NextRing ==
    \/ Route("readfile", "/x", NoStream, TRUE)
    \/ nextStreamID <= MaxEarly /\ VfsCallback("", One("stream", "s2"))
    \/ VfsCallbackNew("s1")
    \/ SourceEmit("s1", "close", TRUE)
    \/ \E id \in KnownIds({"s2"}) : RpcDestroy(id)
SpecRing == Init /\ [][NextRing]_vars

\* A session that holds a process, a pty, a stream, a watcher and a proxy
\* stream, where the peer may unref the process or the pty before the
\* channel goes down.
OrderTokens == {[id |-> 7, readable |-> TRUE, writable |-> FALSE]}
NextOrder ==
    \/ \E tk \in OrderTokens \cup {NoStream} : Route("spawn", "/x", tk, TRUE)
    \/ \E m \in Metas({"s2"}, {"p1"}, {"t1"}, {"w1"}, {}) :
          /\ m.keys[1].val \in Objs => token[m.keys[1].val] = NoToken
          /\ VfsCallback("", m)
    \/ \E pid \in KnownPids({"p1", "t1"}) : RpcUnref(pid)
    \/ SourceEmit("s2", "close", TRUE)
    \/ Disconnect
SpecOrder == Init /\ [][NextOrder]_vars

\* The peer calls api functions.
RpcCall(name, fnName, hasCb) ==
    /\ hasCb => pending < MaxPending
    /\ Apply("call", "", call(Cur, name, fnName, hasCb))

\* A session in which the peer names handles of every kind in its calls:
\* those it was given, one that never was, and a key the registries
\* inherit.
HandleIds(T) == KnownIds(T) \cup {InheritedId}
HandlePids == KnownPids({"p1"}) \cup {InheritedName}
HandleNames == {ApiName["a1"], NoPid, InheritedName}
NextHandles ==
    \/ \E tk \in OrderTokens \cup {NoStream} : Route("spawn", "/x", tk, TRUE)
    \/ \E m \in Metas({"s2"}, {"p1"}, {}, {"w1"}, {"a1"}) :
          /\ m.keys[1].val \in Objs => listeners[m.keys[1].val] = <<>>
          /\ VfsCallback("", m)
    \/ \E id \in HandleIds({"s2"}) :
          \/ RpcWrite(id)
          \/ RpcEnd(id)
          \/ RpcDestroy(id)
          \/ RpcResume(id)
          \/ RpcPause(id)
    \/ \E id \in HandleIds({"w1"}) : RpcCloseWatcher(id)
    \/ \E pid \in HandlePids : RpcKill(pid) \/ RpcUnref(pid) \/ RpcResize(pid)
    \/ \E id \in PeerStreamIds \cup {InheritedId} :
          PeerOnData(id) \/ PeerOnEnd(id) \/ PeerOnClose(id)
    \/ \E name \in HandleNames, fnName \in ApiFns \cup ObjectFns,
          hasCb \in BOOLEAN : RpcCall(name, fnName, hasCb)
SpecHandles == Init /\ [][NextHandles]_vars

\* A session around a pty: the vfs may hand the same pty out again, the
\* peer closes its stream side or kills it, the pty emits data and exits.
NextPty ==
    \/ Route("spawn", "/x", NoStream, TRUE)
    \/ VfsCallback("", One("pty", "t1"))
    \/ \E id \in KnownIds({"t1"}) : RpcDestroy(id)
    \/ \E pid \in KnownPids({"t1"}) : RpcKill(pid)
    \/ \E ev \in {"data", "exit", "close"} : SourceEmit("t1", ev, TRUE)
SpecPty == Init /\ [][NextPty]_vars

\* A long session like that of the ring, in which the stream that was
\* opened first ends early and emits its 'close' late.
NextLate ==
    \/ Route("readfile", "/x", NoStream, TRUE)
    \/ nextStreamID <= MaxEarly /\ VfsCallback("", One("stream", "s2"))
    \/ VfsCallbackNew("s1")
    \/ SourceEmit("s1", "close", TRUE)
    \/ SourceEmit("s2", "end", TRUE)
    \/ SourceEmit("s2", "close", TRUE)
SpecLate == Init /\ [][NextLate]_vars

(***************************************************************************)
(* Events of the vfs: subscribe, unsubscribe and the forwarders they       *)
(* attach.  A forwarder is the closure subscribe creates; it is named by a *)
(* number, the least one that names no attached forwarder.                 *)
(***************************************************************************)
EventNames == {"connect", "error"}
MaxForwarders == 3
\* handlers["constructor"] of an empty object literal: Object, no forwarder.
InheritedFn == 0

ForwardersOf(w, name) ==
    IF Has(w.vfsListeners, name) THEN w.vfsListeners[name] ELSE <<>>
Attached(w) ==
    UNION {{w.vfsListeners[k][i] : i \in 1..Len(w.vfsListeners[k])} :
             k \in DOMAIN w.vfsListeners}
NewForwarder(w) ==
    CHOOSE n \in 1..(Cardinality(Attached(w)) + 1) :
       n \notin Attached(w) /\ \A m \in 1..(n - 1) : m \in Attached(w)

\* vfs.on(name, handler, callback): the vfs adds the listener it is given
\* and calls back.
vfsOn(w, name, handler, hasCb) ==
    LET w1 == [w EXCEPT !.vfsListeners =
                  Put(@, name, Append(ForwardersOf(w, name), handler))]
    IN IF hasCb THEN Callback(w1, "", FALSE) ELSE w1

\* vfs.off(name, handler, callback): the vfs removes the listener it is
\* given, if it has it, and calls back.
vfsOff(w, name, handler, hasCb) ==
    LET w1 == IF Has(w.vfsListeners, name)
              THEN [w EXCEPT !.vfsListeners =
                      Put(@, name, SelectSeq(w.vfsListeners[name],
                                             LAMBDA h : h # handler))]
              ELSE w
    IN IF hasCb THEN Callback(w1, "", FALSE) ELSE w1

subscribe(w, name, hasCb) ==
    LET h == NewForwarder(w)
    IN vfsOn([w EXCEPT !.handlers = Put(@, name, h)], name, h, hasCb)

unsubscribe(w, name, hasCb) ==
    IF ~Has(w.handlers, name)
    THEN IF name = InheritedName
         THEN vfsOff(w, name, InheritedFn, hasCb)
         ELSE w
    ELSE vfsOff([w EXCEPT !.handlers = Del(@, name)], name,
                w.handlers[name], hasCb)

\* The vfs emits the event name: every forwarder attached for it runs, in
\* order, and sends onEvent to the peer.
RECURSIVE Forward(_, _, _)
Forward(w, name, n) ==
    IF n = 0 THEN w
    ELSE Emitted(Forward(w, name, n - 1), "onEvent", NoId, name)
vfsEmit(w, name) == Forward(w, name, Len(ForwardersOf(w, name)))

Subscribe(name, hasCb) ==
    /\ Cardinality(Attached(Cur)) < MaxForwarders
    /\ ApplyAs("subscribe", name, subscribe(Cur, name, hasCb), hasCb)
Unsubscribe(name, hasCb) ==
    ApplyAs("unsubscribe", name, unsubscribe(Cur, name, hasCb), hasCb)
VfsEvent(name) ==
    ApplyAs("event", name, vfsEmit(Cur, name), FALSE)

NextEvents ==
    \/ \E name \in EventNames, hasCb \in BOOLEAN : Subscribe(name, hasCb)
    \/ \E name \in EventNames \cup {InheritedName}, hasCb \in BOOLEAN :
          Unsubscribe(name, hasCb)
    \/ \E name \in EventNames : VfsEvent(name)
SpecEvents == Init /\ [][NextEvents]_vars

\* Allocation on a ring that is already in use.  The worker reaches each of
\* these registries by storing that many streams (or watchers) that stay
\* open and silent: the cursor is at c, the run ids after it are occupied,
\* and either nothing else is, or every id but the one after the run, or
\* every id of the ring.  Which objects the entries hold does not matter to
\* the probing loop.
MaxRun == 3
RingCursors ==
    {0, 1, 2, IdRing \div 2, IdRing - 3, IdRing - 2, IdRing - 1}
RingIds == 0..(IdRing - 1)
RingOf(ids, o) == IF ids = {} THEN EmptyMap ELSE [id \in ids |-> o]
Rings(c) ==
    {{(c + i) % IdRing : i \in 1..run} : run \in 0..MaxRun}
        \cup {RingIds \ {(c + run + 1) % IdRing} : run \in 0..MaxRun}
        \cup {RingIds}
RingInit ==
    /\ handlers = EmptyMap /\ apis = EmptyMap /\ processes = EmptyMap
    /\ proxyStreams = EmptyMap /\ proxyObjs = <<>> /\ vfsListeners = EmptyMap
    /\ token = [o \in Objs |-> NoToken]
    /\ sid = [o \in Objs |-> NoId]
    /\ listeners = [o \in Objs |-> <<>>]
    /\ unreffed = [o \in ProcObjs |-> FALSE]
    /\ src = [o \in Objs |-> "open"]
    /\ paused = [o \in StreamObjs |-> "no"]
    /\ calls = [o \in Objs |-> {}]
    /\ sent = [o \in Objs |-> {}]
    /\ pending = 0
    /\ disconnected = FALSE
    /\ http = NoRequest
    /\ last = [op |-> "init", o |-> "", again |-> FALSE]
    /\ \E c \in RingCursors : \E ids \in Rings(c) :
          \/ /\ streams = RingOf(ids, "s1") /\ nextStreamID = c
             /\ watchers = EmptyMap /\ nextWatcherID = 1
          \/ /\ watchers = RingOf(ids, "w1") /\ nextWatcherID = c
             /\ streams = EmptyMap /\ nextStreamID = 1

\* storeStream and storeWatcher for a new object.  On a ring without a
\* free id the probing loop does not end and the call never returns: there
\* is no step.
AllocateStream ==
    /\ token["s2"] = NoToken
    /\ DOMAIN streams # RingIds
    /\ Apply("storeStream", "s2", storeStream(Cur, "s2"))
AllocateWatcher ==
    /\ sid["w1"] = NoId
    /\ DOMAIN watchers # RingIds
    /\ Apply("storeWatcher", "w1", storeWatcher(Cur, "w1"))
NextAllocate ==
    \/ AllocateStream
    \/ AllocateWatcher
SpecAllocate == RingInit /\ [][NextAllocate]_vars

(***************************************************************************)
(* The REST gateway (vfs-http-adapter/restful.js): one request, the calls  *)
(* it makes on the vfs and the response it writes.                         *)
(***************************************************************************)
MaxEntries == 2

\* The headers the gateway sets; "" is a header that is not set.
HeaderNames ==
    {"Date", "ETag", "Content-Type", "X-VFS-Content-Type", "Content-Length",
     "Content-Range", "X-Content-Length", "X-Metadata-Length"}
\* Request paths, those that end in "/", and the index file of the mount.
DirPaths == {"/", "/dir/"}
FilePaths == {"/file"}
AutoIndex == "index.html"
\* No status code argument, no error argument, no size property.
NoCode == 0
NoErr == [kind |-> "null", num |-> 0, str |-> "", message |-> "", text |-> ""]
NoSize == -1

\* Error values: err.code is a string, a number or missing; text is what
\* err.toString() gives.  A thrown string has neither code nor message.
SysErr(c) ==
    [kind |-> "string", num |-> 0, str |-> c, message |-> c \o ": failed",
     text |-> "Error: " \o c \o ": failed"]
NumErr(n) ==
    [kind |-> "number", num |-> n, str |-> "",
     message |-> "failed with " \o ToString(n),
     text |-> "Error: failed with " \o ToString(n)]
StrErr(s) ==
    [kind |-> "none", num |-> 0, str |-> "", message |-> "", text |-> s]
Errs ==
    {SysErr(c) : c \in {"EBADREQUEST", "EACCES", "ENOENT", "ENOTREADY",
                        "EISDIR", "EIO", "404"}}
        \cup {NumErr(n) : n \in {99, 100, 404, 999, 1000}}
        \cup {StrErr("Error"), StrErr("Range Not Satisfiable")}

\* res.setHeader, res.write and res.end of the http response.
setHeader(h, name, value) == [h EXCEPT !.headers[name] = value]
resWrite(h, chunk) ==
    IF h.ended > 0 THEN h
    ELSE [h EXCEPT !.body = Append(@, chunk), !.headersSent = TRUE]
resEnd(h, chunk) ==
    [h EXCEPT !.body = IF h.ended > 0 \/ chunk = "" THEN @ ELSE Append(@, chunk),
              !.headersSent = TRUE,
              !.ended = @ + 1]

isValidStatusCode(statusCode) == statusCode >= 100 /\ statusCode <= 999

\* The status errorHandler picks.
statusCodeOf(err, code) ==
    IF code # NoCode THEN code
    ELSE IF err.kind = "number" /\ isValidStatusCode(err.num) THEN err.num
    ELSE IF err.kind # "string" THEN 500
    ELSE IF err.str = "EBADREQUEST" THEN 400
    ELSE IF err.str = "EACCES" THEN 403
    ELSE IF err.str = "ENOENT" THEN 200
    ELSE IF err.str = "ENOTREADY" THEN 503
    ELSE IF err.str = "EISDIR" THEN 503
    ELSE 500

\* errorHandler once the status is picked.
errorReply(h, err, statusCode) ==
    LET h1 == IF err.kind = "string" /\ err.str = "ENOENT" THEN h
              ELSE [h EXCEPT !.logged = @ + 1]
    IN IF h1.headersSent THEN resEnd(h1, "")
       ELSE LET message ==
                    (IF err.message # "" THEN err.message ELSE err.text) \o "\n"
                h2 == setHeader([h1 EXCEPT !.status = statusCode],
                                "Content-Type", "text/x-error")
                h3 == setHeader(h2, "Content-Length", ToString(Len(message)))
            IN resEnd(h3, message)

errorHandler_NoCode(h, err, code) == errorReply(h, err, statusCodeOf(err, NoCode))

errorHandler(h, err, code) == errorReply(h, err, statusCodeOf(err, code))

abort(h, err, code) == errorHandler(h, err, code)

\* What a stream emits: a directory entry, or a chunk with the entry's
\* name as its bytes; stringify is JSON.stringify of an entry.
Entries == {[name |-> "a", size |-> 1], [name |-> "b", size |-> 20]}
stringify(entry) ==
    "{\"name\":\"" \o entry.name \o "\",\"size\":" \o ToString(entry.size) \o "}"

\* What the pipe to the response does with a chunk and with 'end'.
PipeData(h, chunk) == resWrite(h, chunk)
PipeEnd(h) == resEnd(h, "")

\* jsonEncoder: the listeners on the input's 'data' and 'end'; chunks and
\* ends are the 'data' and 'end' events the output has emitted.
jsonEncoderData_KeepsFirst(h, entry) ==
    LET chunk == IF h.first THEN "[\n  " \o stringify(entry)
                 ELSE ",\n  " \o stringify(entry)
    IN PipeData([h EXCEPT !.chunks = Append(@, chunk)], chunk)
jsonEncoderData(h, entry) ==
    LET chunk == IF h.first THEN "[\n  " \o stringify(entry)
                 ELSE ",\n  " \o stringify(entry)
    IN PipeData([h EXCEPT !.chunks = Append(@, chunk), !.first = FALSE], chunk)
jsonEncoderEnd(h) ==
    LET chunk == IF h.first THEN "[]" ELSE "\n]"
        h1 == PipeData([h EXCEPT !.chunks = Append(@, chunk)], chunk)
    IN PipeEnd([h1 EXCEPT !.ends = @ + 1])

\* The vfs call the gateway makes: the options are those at call time.
VfsCall(h, op, path) ==
    [h EXCEPT !.vfsCalls = Append(@, [op |-> op, path |-> path,
                                      head |-> h.head, encoding |-> h.encoding]),
              !.phase = "vfs"]

\* A request as it arrives, under a mount configuration.
Request(method, path, autoIndex, noMime) ==
    [phase |-> "new", method |-> method, path |-> path,
     autoIndex |-> autoIndex, noMime |-> noMime,
     head |-> FALSE, encoding |-> "undefined", tryAgain |-> FALSE,
     vfsCalls |-> <<>>, replies |-> <<>>, meta |-> <<>>,
     status |-> 200, headers |-> [n \in HeaderNames |-> ""], body |-> <<>>,
     ended |-> 0, headersSent |-> FALSE, logged |-> 0,
     stream |-> "none", piped |-> FALSE, encoded |-> FALSE,
     onError |-> FALSE, onClose |-> FALSE, reqClosed |-> FALSE,
     first |-> TRUE, fed |-> <<>>, chunks |-> <<>>, ends |-> 0]

\* The request handler up to its vfs call, for GET and HEAD.
handler(h) ==
    LET h1 == IF h.method = "HEAD"
              THEN [h EXCEPT !.head = TRUE, !.method = "GET"] ELSE h
    IN IF h1.path \in DirPaths
       THEN IF h1.autoIndex # ""
            THEN VfsCall([h1 EXCEPT !.tryAgain = TRUE], "readfile",
                         h1.path \o h1.autoIndex)
            ELSE VfsCall([h1 EXCEPT !.encoding = "null"], "readdir", h1.path)
       ELSE VfsCall(h1, "readfile", h1.path)

\* What the vfs hands to onGet: flags are the properties that are present
\* besides stream and size.
HttpMeta(stream, size, flags) ==
    [stream |-> stream, size |-> size, flags |-> flags,
     mime |-> "text/plain", etag |-> "\"e1\"",
     metadataSize |-> 2, metadataStringLength |-> 2]
Str(n) == IF n = NoSize THEN "undefined" ELSE ToString(n)
Sum(a, b) == IF a = NoSize THEN "NaN" ELSE ToString(a + b)

\* The headers onGet sets from the meta.
MetaHeaders(h, meta) ==
    LET h1 == IF "etag" \in meta.flags
              THEN setHeader(h, "ETag", meta.etag) ELSE h
        h2 == IF "notModified" \in meta.flags
              THEN [h1 EXCEPT !.status = 304] ELSE h1
        h3 == IF "partialContent" \in meta.flags
              THEN [h2 EXCEPT !.status = 206] ELSE h2
        h4 == IF "mime" \notin meta.flags THEN h3
              ELSE IF h.noMime
              THEN setHeader(setHeader(h3, "Content-Type",
                                       "application/octet-stream"),
                             "X-VFS-Content-Type", meta.mime)
              ELSE setHeader(h3, "Content-Type", meta.mime)
        h5 == IF meta.size = NoSize THEN h4
              ELSE LET h41 == setHeader(h4, "Content-Length", Str(meta.size))
                   IN IF "partialContent" \in meta.flags
                      THEN setHeader(h41, "Content-Range",
                                     "bytes 0-" \o Str(meta.size - 1) \o "/"
                                         \o Str(meta.size))
                      ELSE h41
        h6 == IF h.encoding = "null"
              THEN setHeader(h5, "Content-Type", "application/json") ELSE h5
    IN IF meta.stream \/ h.head THEN h6 ELSE h3

\* onGet with a stream that is not too big.
StartPipe(h, meta) ==
    LET h1 == IF "metadataSize" \in meta.flags
              THEN setHeader(
                       setHeader(
                           setHeader(h, "X-Content-Length", Str(meta.size)),
                           "X-Metadata-Length",
                           ToString(meta.metadataStringLength)),
                       "Content-Length", Sum(meta.size, meta.metadataSize))
              ELSE h
    IN [h1 EXCEPT !.onError = TRUE, !.piped = TRUE,
                  !.encoded = (h.encoding = "null"), !.onClose = TRUE,
                  !.phase = "piping"]

TooBig(meta) ==
    "File size is bigger than allowed " \o "(8MB). Size is "
        \o Str(meta.size) \o " bytes"

\* onGet from its first line to the test of err.
onGetStart(h, err) ==
    setHeader([h EXCEPT !.replies = Append(@, err # NoErr), !.phase = "done"],
              "Date", "now")

\* onGet when the vfs call succeeded.
onGetMeta(h, meta) ==
    IF "rangeNotSatisfiable" \in meta.flags
    THEN abort(h, StrErr("Range Not Satisfiable"), 416)
    ELSE LET h1 == MetaHeaders(h, meta)
             h2 == IF meta.stream
                   THEN [h1 EXCEPT !.stream = "open", !.meta = <<meta>>]
                   ELSE h1
         IN IF meta.stream
            THEN IF meta.size > 8 * 1024 * 1024
                 THEN errorHandler(h2, StrErr(TooBig(meta)), 513)
                 ELSE StartPipe(h2, meta)
            ELSE resEnd(h2, "")

onGet_Again(h, err, meta) ==
    LET h0 == onGetStart(h, err)
    IN IF err # NoErr
       THEN IF h0.tryAgain
            THEN VfsCall([h0 EXCEPT !.encoding = "null"], "readdir", h0.path)
            ELSE abort(h0, err, NoCode)
       ELSE onGetMeta(h0, meta)

onGet(h, err, meta) ==
    LET h0 == onGetStart(h, err)
    IN IF err # NoErr
       THEN IF h0.tryAgain
            THEN VfsCall([h0 EXCEPT !.tryAgain = FALSE, !.encoding = "null"],
                         "readdir", h0.path)
            ELSE abort(h0, err, NoCode)
       ELSE onGetMeta(h0, meta)

\* The events of meta.stream while it is piped, and 'close' on the request.
streamData(h, entry) ==
    LET h1 == [h EXCEPT !.fed = Append(@, entry)]
    IN IF h.encoded THEN jsonEncoderData(h1, entry)
       ELSE PipeData(h1, entry.name)
streamEnd(h) ==
    LET h1 == [h EXCEPT !.stream = "ended"]
    IN IF h.encoded THEN jsonEncoderEnd(h1) ELSE PipeEnd(h1)
streamError(h, err) ==
    LET h1 == [h EXCEPT !.stream = "errored"]
    IN IF h.onError THEN abort(h1, err, NoCode) ELSE h1
reqClose(h) ==
    LET h1 == [h EXCEPT !.reqClosed = TRUE]
    IN IF h.onClose /\ h.stream = "open"
       THEN [h1 EXCEPT !.stream = "destroyed"] ELSE h1

\* The configurations, requests and replies of the runs.
Methods == {"GET", "HEAD"}
Sizes == {NoSize, 3, 8 * 1024 * 1024, 8 * 1024 * 1024 + 1}
Flags ==
    {{}, {"mime"}, {"mime", "etag"}, {"etag", "notModified"},
     {"mime", "partialContent"}, {"rangeNotSatisfiable"},
     {"mime", "metadataSize"}}
HttpMetas ==
    {HttpMeta(stream, size, flags) :
        stream \in BOOLEAN, size \in Sizes, flags \in Flags}
StreamErrs == {SysErr("EIO"), NumErr(404)}

HttpInit ==
    /\ WorkerInit
    /\ http \in {Request(method, path, autoIndex, noMime) :
                    method \in Methods, path \in DirPaths \cup FilePaths,
                    autoIndex \in {"", AutoIndex}, noMime \in BOOLEAN}
    /\ last = [op |-> "init", o |-> "", again |-> FALSE]

Serve(op, r) ==
    /\ http' = r
    /\ last' = [op |-> op, o |-> "", again |-> FALSE]
    /\ UNCHANGED <<wvars, evars>>

HttpRequest == http.phase = "new" /\ Serve("handler", handler(http))
VfsFails == \E err \in Errs :
    http.phase = "vfs" /\ Serve("onGet", onGet(http, err, HttpMeta(FALSE, NoSize, {})))
VfsReplies == \E meta \in HttpMetas :
    http.phase = "vfs" /\ Serve("onGet", onGet(http, NoErr, meta))
StreamData == \E entry \in Entries :
    /\ http.phase = "piping" /\ http.stream = "open"
    /\ Len(http.fed) < MaxEntries
    /\ Serve("data", streamData(http, entry))
StreamEnd ==
    /\ http.phase = "piping" /\ http.stream = "open"
    /\ Serve("end", streamEnd(http))
StreamError == \E err \in StreamErrs :
    /\ http.phase = "piping" /\ http.stream = "open"
    /\ Serve("error", streamError(http, err))
ReqClose ==
    /\ http.phase \in {"vfs", "piping", "done"} /\ ~http.reqClosed
    /\ Serve("close", reqClose(http))

NextHttp ==
    \/ HttpRequest
    \/ VfsFails
    \/ VfsReplies
    \/ StreamData
    \/ StreamEnd
    \/ StreamError
    \/ ReqClose
SpecHttp == HttpInit /\ [][NextHttp]_vars

(***************************************************************************)
(* POST of a multipart body to a directory: one mkfile per part.  The      *)
(* parser is the gateway's environment: it emits 'part' for each framed    *)
(* part and 'error' for a body it cannot parse, and parser.error(message)  *)
(* emits 'error' with an Error of that message.                            *)
(***************************************************************************)
MaxParts == 2

\* The Content-Type headers of the requests; "" is no header.
ContentTypes ==
    {"", "text/plain", "multipart/form-data",
     "multipart/form-data; boundary=b"}
IsMultipart(contentType) ==
    contentType \in {"multipart/form-data", "multipart/form-data; boundary=b"}
HasBoundary(contentType) == contentType = "multipart/form-data; boundary=b"

\* new Error(message).
MsgErr(message) ==
    [kind |-> "none", num |-> 0, str |-> "", message |-> message,
     text |-> "Error: " \o message]

\* The Content-Disposition of a part: whether the header is there, and the
\* matches m1 (name="...") and m2 (filename="..."), <<>> for no match.
Disposition(header, m1, m2) == [header |-> header, m1 |-> m1, m2 |-> m2]
Dispositions ==
    {Disposition(FALSE, <<>>, <<>>), Disposition(TRUE, <<>>, <<>>),
     Disposition(TRUE, <<"a">>, <<>>), Disposition(TRUE, <<>>, <<"b">>),
     Disposition(TRUE, <<"">>, <<"b">>), Disposition(TRUE, <<"">>, <<>>)}
FilenameOf(d) ==
    IF d.m1 # <<>> /\ d.m1[1] # "" THEN d.m1[1]
    ELSE IF d.m2 # <<>> THEN d.m2[1]
    ELSE "null"

PostRequest(path, contentType) ==
    Request("POST", path, "", FALSE)
        @@ [contentType |-> contentType, parts |-> <<>>]

\* The request handler for a POST to a path that ends in "/".
handlerPost(h) ==
    IF h.contentType = ""
    THEN abort([h EXCEPT !.phase = "done"],
               MsgErr("Missing Content-Type header"), 400)
    ELSE IF ~IsMultipart(h.contentType)
    THEN abort([h EXCEPT !.phase = "done"],
               MsgErr("Content-Type should be multipart"), 400)
    ELSE IF ~HasBoundary(h.contentType)
    THEN abort([h EXCEPT !.phase = "done"],
               MsgErr("Missing multipart boundary"), 400)
    ELSE [h EXCEPT !.phase = "parsing"]

\* The listener on the parser's 'error': abort.
parserError(h, err) == abort([h EXCEPT !.phase = "failed"], err, NoCode)

\* The listener on the parser's 'part'.
onPart(h, d) ==
    IF ~d.header
    THEN parserError(h, MsgErr("Missing Content-Disposition header in part"))
    ELSE IF d.m1 = <<>> /\ d.m2 = <<>>
    THEN parserError(h, MsgErr("Missing filename in Content-Disposition header in part"))
    ELSE [VfsCall([h EXCEPT !.parts = Append(@, "mkfile")], "mkfile",
                  h.path \o "/" \o FilenameOf(d))
            EXCEPT !.phase = h.phase]

\* The callback of the mkfile of part i.
onMkfile(h, i, err) ==
    LET h1 == [h EXCEPT !.parts[i] = IF err = NoErr THEN "done" ELSE "failed",
                        !.replies = Append(@, err # NoErr)]
    IN IF err # NoErr THEN abort(h1, err, NoCode) ELSE resEnd(h1, "")

MkfileErrs == {SysErr("EACCES")}

PostInit ==
    /\ WorkerInit
    /\ http \in {PostRequest(path, contentType) :
                    path \in DirPaths, contentType \in ContentTypes}
    /\ last = [op |-> "init", o |-> "", again |-> FALSE]

PostArrives == http.phase = "new" /\ Serve("handler", handlerPost(http))
Part == \E d \in Dispositions :
    /\ http.phase = "parsing" /\ Len(http.parts) < MaxParts
    /\ Serve("part", onPart(http, d))
ParserFails ==
    /\ http.phase = "parsing"
    /\ Serve("error", parserError(http, MsgErr("Malformed multipart body")))
MkfileReplies == \E i \in 1..Len(http.parts), err \in MkfileErrs \cup {NoErr} :
    /\ http.phase \in {"parsing", "failed"} /\ http.parts[i] = "mkfile"
    /\ Serve("mkfile", onMkfile(http, i, err))

NextPost ==
    \/ PostArrives
    \/ Part
    \/ ParserFails
    \/ MkfileReplies
SpecPost == PostInit /\ [][NextPost]_vars

(***************************************************************************)
(* Vocabulary of the properties.                                           *)
(***************************************************************************)
\* o is a value of one of the registries.
Registered(o) ==
    \/ \E id \in DOMAIN streams : streams[id] = o
    \/ \E pid \in DOMAIN processes : processes[pid] = o
    \/ \E id \in DOMAIN watchers : watchers[id] = o
\* A store* call has attached listeners to o: a token for o went to the peer.
Minted(o) == listeners[o] # <<>>
\* The number of calls of method m among the effects fx.
CountFx(fx, m) == Len(SelectSeq(fx, LAMBDA e : e.m = m))
\* The effects in fx that are calls of m on object o.
CountOn(fx, m, o) == Len(SelectSeq(fx, LAMBDA e : e.m = m /\ e.o = o))

\* A terminal message for o went to the peer.
TerminalSent(o) == sent[o] \cap {"end", "close", "exit", "processClose"} # {}
\* o received a terminal signal: emit("close") or close() or kill().
Signalled(o) == calls[o] \cap {"close", "kill"} # {}
\* Proxy number n is the one made last for its id.
CurrentProxy(n) ==
    \A m \in (n + 1)..Len(proxyObjs) : proxyObjs[m].id # proxyObjs[n].id
\* Proxy number n is in the proxy registry.
RegisteredProxy(n) ==
    Has(proxyStreams, proxyObjs[n].id) /\ proxyStreams[proxyObjs[n].id] = n
\* The source of stream s has emitted neither 'end' nor 'close', and no
\* 'close' was emitted on it.
Flowing(s) == src[s] = "open" /\ sent[s] \cap {"end", "close"} = {}

(***************************************************************************)
(* C1.  When the 'disconnect' handler has run, every registry of the       *)
(* worker (streams, proxy streams, processes, watchers, apis) is empty,    *)
(* and every resource minted before that had not terminated has received   *)
(* its terminal signal: kill for a process, 'close' for a stream, close()  *)
(* for a watcher.                                                          *)
(***************************************************************************)
C1_Terminated(o) == src[o] = "closed" \/ TerminalSent(o) \/ Signalled(o)

C1_TeardownEmptiesRegistries ==
    [][last'.op = "disconnect" =>
         /\ DOMAIN streams' = {}
         /\ DOMAIN proxyStreams' = {}
         /\ DOMAIN processes' = {}
         /\ DOMAIN watchers' = {}
         /\ DOMAIN apis' = {}
         /\ \A n \in 1..Len(proxyObjs) :
               CurrentProxy(n) => proxyObjs'[n].events \cap {"end", "close"} # {}
         /\ \A o \in Objs \ ApiObjs :
               Minted(o) /\ ~C1_Terminated(o) => Signalled(o)']_vars

(***************************************************************************)
(* C2.  No two live handles share an id: two streams that have a token and *)
(* have not terminated never carry the same stream id, and two such        *)
(* watchers never the same watcher id.                                     *)
(***************************************************************************)
C2_Live(o) ==
    /\ Minted(o)
    /\ src[o] # "closed"
    /\ ~TerminalSent(o)
    /\ calls[o] \cap {"close", "kill", "destroy"} = {}

C2_UniqueLiveIds ==
    /\ \A a, b \in StreamObjs :
          a # b /\ C2_Live(a) /\ C2_Live(b) => sid[a] # sid[b]
    /\ \A a, b \in WatcherObjs :
          a # b /\ C2_Live(a) /\ C2_Live(b) => sid[a] # sid[b]

(***************************************************************************)
(* C3.  storeStream is idempotent: a step in which the vfs hands over a    *)
(* stream that already has a token returns that token, allocates no id,    *)
(* adds no registry entry and attaches no listener, so that afterwards     *)
(* each event of the stream still sends exactly one message to the peer.   *)
(***************************************************************************)
C3_Restored == last.op = "callback" /\ last.again /\ last.o \in PlainStreams

C3_StoreStreamIdempotent ==
    [][C3_Restored' =>
         LET s == last'.o IN
         /\ storeStream(Cur, s).ret = token[s]
         /\ token' = token /\ sid' = sid
         /\ nextStreamID' = nextStreamID
         /\ streams' = streams
         /\ listeners' = listeners
         /\ CountFx(Emit(Cur', s, "data", TRUE).fx, "onData") = 1
         /\ CountFx(Emit(Cur', s, "end", TRUE).fx, "onEnd") = 1
         /\ CountFx(Emit(Cur', s, "close", TRUE).fx, "onClose") = 1
         /\ CountFx(Emit(Cur', s, "error", TRUE).fx, "onError") = 1]_vars

C3_Witness == C3_Restored /\ Registered(last.o)

(***************************************************************************)
(* C4.  storeProcess is idempotent: a step in which the vfs hands over a   *)
(* process that is already registered returns the token minted before and  *)
(* leaves the registry and the listeners on the process unchanged, so one  *)
(* 'exit' (or 'close') of the process sends one onExit (or onProcessClose).*)
(***************************************************************************)
C4_StoreProcessIdempotent ==
    [][last'.op = "callback" /\ last'.o \in Procs /\ Registered(last'.o) =>
         LET p == last'.o IN
         /\ storeProcess(Cur, p, FALSE).ret = token[p]
         /\ token' = token
         /\ processes' = processes
         /\ listeners' = listeners
         /\ CountFx(Emit(Cur', p, "exit", TRUE).fx, "onExit") = 1
         /\ CountFx(Emit(Cur', p, "close", TRUE).fx, "onProcessClose") = 1]_vars

(***************************************************************************)
(* C5.  Backpressure round trip: a source whose chunk the peer refuses     *)
(* (onData returns false) receives pause(), and the next 'drain' of the    *)
(* channel calls resume() on every source the data listener paused that    *)
(* has emitted neither 'end' nor 'close', whatever calls the peer made on  *)
(* its id in between.                                                      *)
(***************************************************************************)
C5_Congested(s) == paused[s] = "congested" /\ Flowing(s)

C5_BackpressureRoundTrip ==
    [][/\ \A s \in PlainStreams :
             Minted(s) /\ Flowing(s) =>
                CountOn(Emit(Cur, s, "data", FALSE).fx, "pause", s) = 1
       /\ last'.op = "drain" =>
             \A s \in PlainStreams : C5_Congested(s) => paused'[s] = "no"]_vars

\* A congested source whose registry entry the peer's end(id) or destroy(id)
\* has removed, at the moment the channel has drained.
C5_Witness ==
    /\ last.op = "drain"
    /\ \E s \in PlainStreams : C5_Congested(s) /\ ~Registered(s)

(***************************************************************************)
(* C6.  After the disconnect teardown, write(id) and kill(pid) for any id  *)
(* or pid ever minted are no-ops: nothing thrown, nothing called on a      *)
(* stream or process, no registry changed.                                 *)
(***************************************************************************)
C6_NoOpAfterTeardown ==
    disconnected =>
       \A o \in Objs :
          Minted(o) =>
             /\ o \in StreamObjs =>
                   \A accepted \in BOOLEAN : write(Cur, sid[o], accepted) = Cur
             /\ o \in ProcObjs => kill(Cur, Pid[o]) = Cur

(***************************************************************************)
(* C7.  Every token that went to the peer gets a terminal event, or the    *)
(* disconnect teardown synthesizes its terminal signal: when the teardown  *)
(* has run, every object minted before it has had a terminal message sent  *)
(* or has been told to terminate (close, kill, destroy or end called on    *)
(* it), also an object whose entry destroy(id), end(id) or close(id)       *)
(* removed.                                                                *)
(***************************************************************************)
C7_TerminalOrTeardown ==
    [][last'.op = "disconnect" =>
         \A o \in Objs \ ApiObjs :
            Minted(o) => TerminalSent(o)' \/ calls'[o] # {}]_vars

(***************************************************************************)
(* C8.  Per stream the peer sees data* and then the terminal messages: no  *)
(* onData for a stream follows an onEnd or onClose for it, also when the   *)
(* onClose came from the 'close' the disconnect teardown emitted.          *)
(***************************************************************************)
C8_NoDataAfterTerminal ==
    [][\A s \in StreamObjs :
          CountOn(Emit(Cur, s, "data", TRUE).fx, "onData", s) > 0
          /\ last'.op = "data" /\ last'.o = s
             => sent[s] \cap {"end", "close"} = {}]_vars

(***************************************************************************)
(* C9.  No resource leaks across a disconnect: when a routed call is       *)
(* pending at the disconnect and its callback fires after the teardown,    *)
(* no stream, process, pty or watcher the callback delivered is left       *)
(* registered without its terminal event or signal.                        *)
(***************************************************************************)
C9_NoLeakAcrossDisconnect ==
    [][last.op = "disconnect" /\ last'.op = "callback" =>
         \A o \in Objs \ ApiObjs :
            Registered(o)' => TerminalSent(o)' \/ Signalled(o)']_vars

(***************************************************************************)
(* C10.  A proxy made by makeStreamProxy(token) emits 'data', 'end' and    *)
(* 'close' when the peer pushes onData(id), onEnd(id) and onClose(id) for  *)
(* its id: 'data' and 'end' as long as it has emitted neither 'end' nor    *)
(* 'close', and 'close' as long as it has not emitted 'close', so also     *)
(* after its 'end'.  The proxy meant is the one made last for the id.      *)
(***************************************************************************)
C10_ProxyEmitsWhatIsPushed ==
    \A n \in 1..Len(proxyObjs) :
       LET id == proxyObjs[n].id
           ev == proxyObjs[n].events
       IN CurrentProxy(n) =>
             /\ ev \cap {"end", "close"} = {} =>
                   /\ CountFx(onData(Cur, id).fx, "emit:data") = 1
                   /\ CountFx(onEnd(Cur, id).fx, "emit:end") = 1
             /\ "close" \notin ev =>
                   CountFx(onClose(Cur, id).fx, "emit:close") = 1

(***************************************************************************)
(* C11.  Remote-to-local write backpressure, as claimed: when write(id,     *)
(* chunk) from the peer reaches a registered writable stream whose write   *)
(* returns false, the writer is made to pause: the endpoint hands the      *)
(* false back or sends the peer a message.                                 *)
(***************************************************************************)
C11_RefusedWriteReachesWriter ==
    \A s \in StreamObjs \cap WritableObjs :
       Has(streams, sid[s]) /\ streams[sid[s]] = s =>
          LET r == write(Cur, sid[s], FALSE)
          IN r.out = "false" \/ \E i \in 1..Len(r.fx) : r.fx[i].m \in PeerMsgs

(***************************************************************************)
(* C11, amended.  The backpressure is that of the channel: write(chunk) on *)
(* a writable proxy stream calls remote.write(id, chunk) once and returns  *)
(* what it returned (false when the channel does not accept), and when the *)
(* channel drains every writable proxy stream in the registry emits        *)
(* 'drain', once, and no other proxy does.                                 *)
(***************************************************************************)
C11_DrainsOf(fx, id) ==
    Len(SelectSeq(fx, LAMBDA e : e.m = "emit:drain" /\ e.id = id))

C11_ChannelBackpressure ==
    [][/\ \A n \in 1..Len(proxyObjs), accepted \in BOOLEAN :
             proxyObjs[n].writable =>
                LET r == ProxyWrite(Cur, n, accepted)
                IN /\ r.out = (IF accepted THEN "true" ELSE "false")
                   /\ CountFx(r.fx, "remote.write") = 1
                   /\ r.fx[1].id = proxyObjs[n].id
       /\ last'.op = "drain" =>
             \A n \in 1..Len(proxyObjs) :
                IF RegisteredProxy(n) /\ proxyObjs[n].writable
                THEN /\ "drain" \in proxyObjs'[n].events
                     /\ C11_DrainsOf(drain(Cur).fx, proxyObjs[n].id) = 1
                ELSE proxyObjs'[n].events = proxyObjs[n].events]_vars

\* The channel has drained and a registered writable proxy has emitted 'drain'.
C11_Witness ==
    /\ last.op = "drain"
    /\ \E n \in 1..Len(proxyObjs) :
          RegisteredProxy(n) /\ proxyObjs[n].writable
          /\ "drain" \in proxyObjs[n].events

(***************************************************************************)
(* C12.  processCallback(err, meta, callback) projects meta key by key: a  *)
(* key among stream, process, pty, watcher, api with a defined value gets  *)
(* the token of the matching store* call, any other key with a defined     *)
(* value is copied, a key whose value is undefined or null is dropped, and *)
(* the callback is called once with the error and the projection; with an  *)
(* error and no meta the callback gets the error only and nothing is       *)
(* stored.                                                                 *)
(***************************************************************************)
C12_Defined(meta) == SelectSeq(meta.keys, LAMBDA e : e.val # Undefined)

\* q is the projection of entry e, in the state r after the call.
C12_Projects(r, e, q) ==
    /\ q.key = e.key
    /\ CASE e.key = "stream" ->
               /\ q.tok = r.token[e.val]
               /\ q.tok.id = r.sid[e.val] /\ q.tok.id # NoId
               /\ r.listeners[e.val] # <<>>
         [] e.key = "process" ->
               /\ q.tok.pid = Pid[e.val]
               /\ r.processes[q.tok.pid] = e.val
               /\ q.tok.stdio = <<r.sid[Stdin[e.val]], r.sid[Stdout[e.val]],
                                  r.sid[Stderr[e.val]]>>
         [] e.key = "pty" ->
               /\ q.tok = r.token[e.val]
               /\ q.tok.pid = Pid[e.val] /\ q.tok.id = r.sid[e.val]
         [] e.key = "watcher" ->
               /\ q.tok.id = r.sid[e.val]
               /\ r.watchers[q.tok.id] = e.val
         [] e.key = "api" ->
               /\ q.tok.name = ApiName[e.val]
               /\ r.apis[q.tok.name] = e.val
         [] OTHER -> q.val = e.val /\ q.tok = NoToken

C12_ProjectionOf(err, meta) ==
    LET r == processCallback(Cur, err, meta)
        d == C12_Defined(meta)
    IN /\ Len(r.cbs) = 1
       /\ CountFx(r.fx, "callback") = 1
       /\ r.cbs[1].err = err
       /\ IF err # "" /\ ~meta.present
          THEN /\ ~r.cbs[1].has
               /\ [r EXCEPT !.fx = <<>>, !.cbs = <<>>] = Cur
          ELSE /\ r.cbs[1].has
               /\ Len(r.cbs[1].proj) = Len(d)
               /\ \A i \in 1..Len(d) : C12_Projects(r, d[i], r.cbs[1].proj[i])

C12_ProcessCallbackProjects ==
    /\ \A err \in {"", "EIO"}, meta \in CallbackMetas \cup {NoMeta} :
          (\A i \in 1..Len(meta.keys) :
              meta.keys[i].val \in Objs => Stores(meta.keys[i].val) < MaxStores)
             => C12_ProjectionOf(err, meta)
    /\ C12_ProjectionOf("ENOENT", NoMeta)

\* A callback has stored a stream and, in another call, a watcher.
C12_Witness ==
    /\ last.op = "callback"
    /\ Registered("s2") /\ Registered("w1")

C14_Codes == {NoCode, 400, 416, 501, 513}
C14_Table ==
    [c \in {"EBADREQUEST", "EACCES", "ENOENT", "ENOTREADY", "EISDIR"} |->
        CASE c = "EBADREQUEST" -> 400
          [] c = "EACCES" -> 403
          [] c = "ENOENT" -> 200
          [] c \in {"ENOTREADY", "EISDIR"} -> 503]
C14_Expected(err, code) ==
    CASE code # NoCode -> code
      [] code = NoCode /\ err.kind = "number" /\ err.num \in 100..999 -> err.num
      [] code = NoCode /\ err.kind = "string" /\ err.str \in DOMAIN C14_Table ->
            C14_Table[err.str]
      [] OTHER -> 500
C14_Message(err) == IF err.message = "" THEN err.text ELSE err.message

C14_ErrorHandlerMaps ==
    http.phase # "none" =>
        \A err \in Errs, code \in C14_Codes :
            LET r == errorHandler(http, err, code)
            IN /\ r.ended = http.ended + 1
               /\ IF http.headersSent
                  THEN /\ r.status = http.status
                       /\ r.headers = http.headers
                       /\ r.body = http.body
                  ELSE /\ r.status = C14_Expected(err, code)
                       /\ r.body = <<C14_Message(err) \o "\n">>
                       /\ r.headers["Content-Type"] = "text/x-error"

\* The handler has answered a failed vfs call with the status of the table.
C14_Witness ==
    /\ last.op = "onGet" /\ http.ended = 1
    /\ http.status = 403 /\ http.body = <<"EACCES: failed\n">>
    /\ http.headers["Content-Type"] = "text/x-error"

(***************************************************************************)
(* C15.  A GET or HEAD on a path ending in "/" with autoIndex configured   *)
(* first calls readfile(path + autoIndex); if and only if that call fails  *)
(* it calls readdir(path) with encoding = null, once; an error from that   *)
(* readdir goes to the error handler and no further vfs call is made.  A   *)
(* request makes at most two vfs calls and at most one readdir.            *)
(***************************************************************************)
C15_Readdirs == SelectSeq(http.vfsCalls, LAMBDA c : c.op = "readdir")

C15_AutoIndexFallback ==
    http.phase \notin {"none", "new"} =>
        /\ Len(http.vfsCalls) \in 1..2
        /\ Len(C15_Readdirs) <= 1
        /\ Len(http.replies) <= Len(http.vfsCalls)
        /\ (http.path \in DirPaths /\ http.autoIndex # "") =>
              /\ http.vfsCalls[1] =
                    [op |-> "readfile", path |-> http.path \o http.autoIndex,
                     head |-> http.head, encoding |-> "undefined"]
              /\ Len(http.vfsCalls) = 2 <=>
                    (Len(http.replies) >= 1 /\ http.replies[1])
              /\ Len(http.vfsCalls) = 2 =>
                    http.vfsCalls[2] =
                        [op |-> "readdir", path |-> http.path,
                         head |-> http.head, encoding |-> "null"]
              /\ (Len(http.replies) = 2 /\ http.replies[2]) =>
                    /\ http.phase = "done"
                    /\ http.ended = 1
                    /\ http.headers["Content-Type"] = "text/x-error"

\* The index file could not be read, and neither could the directory.
C15_Witness ==
    /\ last.op = "onGet" /\ http.path \in DirPaths /\ http.autoIndex # ""
    /\ http.replies = <<TRUE, TRUE>>
    /\ Len(C15_Readdirs) = 1

(***************************************************************************)
(* C16.  When the result of a GET carries a stream and meta.size is above  *)
(* 8 MiB, the gateway responds with status 513 and the body                *)
(* 'File size is bigger than allowed (8MB). Size is <size> bytes' plus a   *)
(* newline, never pipes the stream to the response, and destroys the       *)
(* stream.                                                                 *)
(***************************************************************************)
C16_Oversize ==
    /\ http.phase # "none" /\ http.meta # <<>>
    /\ http.meta[1].size > 8 * 1024 * 1024
C16_Refused ==
    /\ http.status = 513
    /\ http.body = <<"File size is bigger than allowed (8MB). Size is "
                        \o ToString(http.meta[1].size) \o " bytes\n">>
    /\ ~http.piped

C16_OversizeDestroysStream ==
    C16_Oversize => C16_Refused /\ http.stream = "destroyed"

\* The oversize stream was refused with 513 and is left open.
C16_Witness ==
    C16_Oversize /\ C16_Refused /\ http.ended = 1 /\ http.stream = "open"

(***************************************************************************)
(* C17.  For an input stream that emits n >= 1 objects and then 'end',     *)
(* the chunks the JSON encoder emits concatenate to "[", newline, two      *)
(* spaces and the JSON of the first object, then for every further object  *)
(* ",", newline, two spaces and its JSON, then newline and "]": the JSON   *)
(* array of the objects in input order.  For n = 0 the output is exactly   *)
(* "[]".  'end' is emitted exactly once, after the last chunk.             *)
(***************************************************************************)
RECURSIVE C17_Concat(_)
C17_Concat(chunks) ==
    IF chunks = <<>> THEN "" ELSE chunks[1] \o C17_Concat(Tail(chunks))
RECURSIVE C17_Items(_)
C17_Items(entries) ==
    IF Len(entries) = 1 THEN "  " \o stringify(entries[1])
    ELSE C17_Items(SubSeq(entries, 1, Len(entries) - 1))
             \o ",\n  " \o stringify(entries[Len(entries)])
C17_Array(entries) ==
    IF entries = <<>> THEN "[]" ELSE "[\n" \o C17_Items(entries) \o "\n]"

C17_EncodesArray ==
    [][(http.phase = "piping" /\ http.encoded) =>
        /\ http'.ends = (IF http'.stream = "ended" THEN 1 ELSE 0)
        /\ http'.ends = 1 =>
              /\ C17_Concat(http'.chunks) = C17_Array(http'.fed)
              /\ last'.op = "end" => Len(http'.chunks) = Len(http.chunks) + 1
              /\ last'.op # "end" => http'.chunks = http.chunks
        /\ http'.ends = 0 => Len(http'.chunks) = Len(http'.fed)]_vars

\* Two entries and then 'end' went through the encoder.
C17_Witness ==
    /\ last.op = "end" /\ http.encoded /\ Len(http.fed) = 2 /\ http.ends = 1
    /\ C17_Concat(http.chunks) =
            "[\n  {\"name\":\"a\",\"size\":1},\n  {\"name\":\"b\",\"size\":20}\n]"

\* Nothing and then 'end' went through the encoder.
C17_WitnessEmpty ==
    last.op = "end" /\ http.encoded /\ http.fed = <<>> /\ http.chunks = <<"[]">>

(***************************************************************************)
(* C18.  The disconnect teardown runs in a fixed order: first every        *)
(* registered process that is not unreffed is killed and every process     *)
(* entry, unreffed or not, is dropped; only then 'close' is emitted on     *)
(* every registered local stream; then 'close' on every proxy stream;      *)
(* then every watcher is closed.  No stream gets its synthetic 'close'     *)
(* before all processes have been killed, and an unreffed process is never *)
(* killed by the teardown.                                                 *)
(***************************************************************************)
\* The step of the teardown an effect belongs to; 0 for the messages the
\* listeners of a closed stream send.
C18_Step(e) ==
    CASE e.m = "killtree" -> 1
      [] e.m = "emit:close" /\ e.o # "proxy" -> 2
      [] e.m = "emit:close" /\ e.o = "proxy" -> 3
      [] e.m = "watcher.close" -> 4
      [] OTHER -> 0
C18_Steps(fx) == SelectSeq(fx, LAMBDA e : C18_Step(e) > 0)
C18_Count(fx, m, id, o) ==
    Len(SelectSeq(fx, LAMBDA e : e.m = m /\ e.id = id /\ e.o = o))

C18_TeardownOrder ==
    LET r == disconnect(Cur)
        fx == C18_Steps(r.fx)
    IN /\ \A i, j \in 1..Len(fx) : i < j => C18_Step(fx[i]) <= C18_Step(fx[j])
       /\ r.processes = EmptyMap
       /\ \A pid \in DOMAIN processes :
             /\ C18_Count(fx, "killtree", NoId, pid) =
                    (IF unreffed[processes[pid]] THEN 0 ELSE 1)
             /\ unreffed[processes[pid]] =>
                    ("kill" \in r.calls[processes[pid]]
                        <=> "kill" \in calls[processes[pid]])
       /\ \A id \in DOMAIN streams :
             C18_Count(fx, "emit:close", id, streams[id]) = 1
       /\ \A id \in DOMAIN proxyStreams :
             C18_Count(fx, "emit:close", id, "proxy") = 1
       /\ \A id \in DOMAIN watchers :
             C18_Count(fx, "watcher.close", id, watchers[id]) = 1
       /\ Len(fx) = Cardinality({pid \in DOMAIN processes :
                                    ~unreffed[processes[pid]]})
                        + Cardinality(DOMAIN streams)
                        + Cardinality(DOMAIN proxyStreams)
                        + Cardinality(DOMAIN watchers)

\* The channel went down on an unreffed process, a pty, a stream, a proxy
\* stream and a watcher: the pty was killed, the process was not.
C18_Witness ==
    /\ last.op = "disconnect"
    /\ unreffed["p1"] /\ token["p1"] # NoToken /\ "kill" \notin calls["p1"]
    /\ ~unreffed["t1"] /\ "kill" \in calls["t1"]
    /\ "close" \in calls["s2"] /\ "close" \in calls["w1"]
    /\ Len(proxyObjs) = 1 /\ "close" \in proxyObjs[1].events

(***************************************************************************)
(* C19.  Every id minted by storeStream and by storeWatcher is an integer  *)
(* in 1..9999, after any number of allocations, also after the cursor has  *)
(* wrapped around.                                                         *)
(***************************************************************************)
C19_IdsInRange ==
    /\ \A o \in Objs : sid[o] # NoId => sid[o] \in 1..(IdRing - 1)
    /\ \A id \in DOMAIN streams \cup DOMAIN watchers : id \in 1..(IdRing - 1)

\* The cursor has wrapped and the stream just stored carries id 0.
C19_Witness ==
    last.op = "callback" /\ nextStreamID = 0 /\ Has(streams, 0)

(***************************************************************************)
(* C20.  Id allocation in storeStream and storeWatcher always terminates:  *)
(* the probing loop advances the cursor at most (number of occupied ids    *)
(* + 1) times and stops at an id that is not occupied in the registry, in  *)
(* every registry state the worker can be in.                              *)
(***************************************************************************)
\* The loop started at cursor c on registry reg stops after k advances.
C20_StopsAfter(reg, c, k) ==
    /\ ~Has(reg, (c + k) % IdRing)
    /\ \A j \in 1..(k - 1) : Has(reg, (c + j) % IdRing)
C20_Terminates(reg, c) ==
    \E k \in 1..(Cardinality(DOMAIN reg) + 1) : C20_StopsAfter(reg, c, k)

C20_AllocationTerminates ==
    /\ C20_Terminates(streams, nextStreamID)
    /\ C20_Terminates(watchers, nextWatcherID)

\* The same, for the registries that have a free id.
C20_TerminatesWithFreeId ==
    /\ DOMAIN streams # RingIds => C20_Terminates(streams, nextStreamID)
    /\ DOMAIN watchers # RingIds => C20_Terminates(watchers, nextWatcherID)

\* An allocation went past the occupied ids after the cursor and took the
\* last free id of the ring.
C20_Witness ==
    /\ last.op = "storeStream" /\ DOMAIN streams = RingIds
    /\ sid["s2"] = nextStreamID /\ streams[nextStreamID] = "s2"

(***************************************************************************)
(* C21.  Every per-handle method (write, end, destroy, resume, pause,      *)
(* onData, onEnd, onClose, kill, unref, resize, close, call) invoked with  *)
(* an id, pid or api name that is not in the corresponding registry is     *)
(* silently ignored: it does not throw, calls nothing on any resource,     *)
(* sends nothing to the peer and leaves every registry unchanged.          *)
(***************************************************************************)
\* Every handle method leaves the worker as it is, with no effect at all,
\* for the keys of ids, pids and names that are not in its registry.
C21_Ignored(ids, pids, names) ==
    /\ \A id \in ids \ DOMAIN streams :
          /\ \A accepted \in BOOLEAN : write(Cur, id, accepted) = Cur
          /\ end(Cur, id) = Cur
          /\ destroy(Cur, id) = Cur
          /\ resume(Cur, id) = Cur
          /\ pause(Cur, id) = Cur
    /\ \A id \in ids \ DOMAIN proxyStreams :
          /\ onData(Cur, id) = Cur
          /\ onEnd(Cur, id) = Cur
          /\ onClose(Cur, id) = Cur
    /\ \A id \in ids \ DOMAIN watchers : closeWatcher(Cur, id) = Cur
    /\ \A pid \in pids \ DOMAIN processes :
          /\ kill(Cur, pid) = Cur
          /\ unref(Cur, pid) = Cur
          /\ resize(Cur, pid) = Cur
    /\ \A name \in names \ DOMAIN apis :
          \A fnName \in ApiFns \cup ObjectFns, hasCb \in BOOLEAN :
             call(Cur, name, fnName, hasCb) = Cur

C21_AbsentHandleIgnored ==
    C21_Ignored(HandleIds(Objs) \cup PeerStreamIds,
                {Pid[p] : p \in ProcObjs} \cup {UnknownPid, InheritedName},
                HandleNames)

\* The same without the keys the registries inherit.
C21_AbsentOwnKeyIgnored ==
    C21_Ignored(KnownIds(Objs) \cup PeerStreamIds,
                {Pid[p] : p \in ProcObjs} \cup {UnknownPid},
                HandleNames \ {InheritedName})

\* The peer has called a method with a handle that was closed before, and
\* with one the registries inherit.
C21_Witness ==
    /\ last.op \in {"kill", "write", "call"}
    /\ token["s2"] # NoToken /\ ~Registered("s2")
    /\ token["p1"] # NoToken /\ DOMAIN apis # {}

(***************************************************************************)
(* C22.  storePty registers a pty once as a process, under its pid, and    *)
(* once as a stream, under a fresh stream id, and returns one token that   *)
(* carries both pid and id.  While the pty is still registered as a        *)
(* process, a second storePty with the same pty returns that same token    *)
(* and creates no second process entry, no second stream entry and no      *)
(* further listener.                                                       *)
(***************************************************************************)
C22_Kinds(ls) == [i \in 1..Len(ls) |-> ls[i].k]

C22_StorePtyOnce ==
    \A t \in Ptys :
       LET r == storePty(Cur, t)
       IN IF Get(processes, Pid[t]) = t
          THEN /\ r = [Cur EXCEPT !.ret = token[t]]
               /\ token[t].pid = Pid[t]
               /\ token[t].id = sid[t] /\ sid[t] # NoId
          ELSE /\ r.ret.pid = Pid[t]
               /\ r.ret.id \in RingIds /\ ~Has(streams, r.ret.id)
               /\ r.token[t] = r.ret /\ r.sid[t] = r.ret.id
               /\ r.processes = Put(processes, Pid[t], t)
               /\ r.streams = Put(streams, r.ret.id, t)
               /\ C22_Kinds(r.listeners[t]) =
                     C22_Kinds(listeners[t]) \o <<"proc", "stream", "kill">>

\* The vfs handed out a pty that was registered as a process already.
C22_Witness ==
    /\ last.op = "callback" /\ last.o = "t1" /\ last.again
    /\ Get(processes, Pid["t1"]) = "t1"
    /\ C22_Kinds(listeners["t1"]) = <<"proc", "stream", "kill">>

(***************************************************************************)
(* C23.  A registry entry is only ever removed on behalf of the resource   *)
(* it belongs to: when a stream's 'end' or 'close' listener, or a          *)
(* process's 'close' listener, deletes streams[id], the entry under that   *)
(* id is that stream (or a stdio stream of that process).  A late 'close'  *)
(* of a stream whose entry was removed before never deletes the entry of   *)
(* another stream that has been given the same id since.                   *)
(***************************************************************************)
\* The streams on whose behalf a listener of o removes entries.
C23_Own(o) ==
    IF o \in Procs THEN {Stdin[o], Stdout[o], Stderr[o]} ELSE {o}

C23_RemovesOwnEntryOnly ==
    [][last'.op \in {"end", "close", "exit"} /\ last'.o \in Objs =>
          \A id \in DOMAIN streams \ DOMAIN streams' :
             streams[id] \in C23_Own(last'.o)]_vars

(***************************************************************************)
(* C24.  A routed operation that is refused, because its callback is       *)
(* missing or because its path is null or undefined (EINVALIDPATH), leaves *)
(* every registry as it was: in particular, when options.stream carries a  *)
(* token, the refused call leaves no proxy stream in proxyStreams.         *)
(***************************************************************************)
C24_Registries ==
    <<streams, proxyStreams, watchers, processes, apis, handlers>>

\* A routed call that reaches the vfs is pending afterwards; a refused one
\* is not.
C24_RefusalLeavesRegistries ==
    [][last'.op = "route" /\ pending' = pending =>
          C24_Registries' = C24_Registries]_vars

\* The refusal for a missing callback comes before the proxy is made.
C24_NoCallbackLeavesRegistries ==
    \A name \in RoutedOps, path \in {"null", "undefined", "/x"},
       tk \in PeerTokens \cup {NoStream} :
       LET r == route(Cur, name, path, tk, FALSE)
       IN <<r.streams, r.proxyStreams, r.watchers, r.processes, r.apis,
            r.handlers>> = C24_Registries

\* A call with a token and no path was refused, and its proxy is registered.
C24_Witness ==
    /\ last.op = "route" /\ pending = 0
    /\ proxyStreams # EmptyMap

(***************************************************************************)
(* C25.  For every event name, after any sequence of subscribe and         *)
(* unsubscribe calls that ends with unsubscribe(name), no forwarder for    *)
(* that name is attached to the vfs, so a later vfs event of that name     *)
(* sends no onEvent; and at any time at most one forwarder per name is     *)
(* attached, so one vfs event produces at most one onEvent.                *)
(***************************************************************************)
C25_OneForwarderPerName ==
    /\ \A name \in EventNames :
          /\ Len(ForwardersOf(Cur, name)) <= 1
          /\ CountFx(vfsEmit(Cur, name).fx, "onEvent") <= 1
    /\ last.op = "unsubscribe" /\ last.o \in EventNames =>
          /\ ForwardersOf(Cur, last.o) = <<>>
          /\ CountFx(vfsEmit(Cur, last.o).fx, "onEvent") = 0

\* The forwarder that unsubscribe will detach is the latest one attached.
C25_LatestForwarderAttached ==
    \A name \in DOMAIN handlers :
       /\ ForwardersOf(Cur, name) # <<>>
       /\ handlers[name] = ForwardersOf(Cur, name)[Len(ForwardersOf(Cur, name))]

\* A name was subscribed twice and unsubscribed: a forwarder is still
\* attached.
C25_Witness ==
    /\ last.op = "unsubscribe" /\ last.o \in EventNames
    /\ ~Has(handlers, last.o)
    /\ ForwardersOf(Cur, last.o) # <<>>

(***************************************************************************)
(* C26.  The gateway completes a response at most once and only when the   *)
(* whole request has been handled: for a multipart POST with several       *)
(* parts the response is not ended while the mkfile of a part is still     *)
(* running, and res.end is not called again once the response has ended,   *)
(* neither by the success nor by the error of a later part.                *)
(***************************************************************************)
C26_MkfilesRunning == {i \in 1..Len(http.parts) : http.parts[i] = "mkfile"}

C26_EndsOnceWhenAllDone ==
    http.method = "POST" =>
       /\ http.ended <= 1
       /\ http.ended > 0 => C26_MkfilesRunning = {}

\* Two parts were stored and both mkfile calls came back.
C26_Witness ==
    /\ http.method = "POST" /\ last.op = "mkfile"
    /\ Len(http.parts) = 2 /\ C26_MkfilesRunning = {}
    /\ http.ended = 2

====
